---- MODULE Spec2Model ----
(***************************************************************************)
(* Model of the response cache of midbel/fetch (src/cache.go, lines 1-298):*)
(* the filesystem backend (filecache), the embedded-store backend           *)
(* (boltcache) and the null backend (noopcache), driven by concurrent       *)
(* callers of Get and of the consumer returned by Do, a wall clock and the  *)
(* background janitor of the filesystem backend.                            *)
(*                                                                         *)
(* Strings that are hashed are sequences of byte values.  Time is counted   *)
(* in whole ticks of the wall clock.                                        *)
(***************************************************************************)
EXTENDS Integers, Sequences, FiniteSets, TLC

\* ---------------------------------------------------------------- bounds
MaxTime == 2        \* the wall clock runs from 0 to MaxTime
MaxDo   == 2        \* number of live responses handed to a consumer returned by Do
MaxLen  == 2        \* length of the longer live response body
TTL     == 1        \* the positive time-to-live given to the constructors
Cap     == 1        \* the positive capacity given to FileCache

\* ---------------------------------------------------------------- inputs
Procs == {"p1", "p2"}

\* "http://h/acb", "http://h/bac" (same adler32, different xxh64), "http://g/x"
U1 == <<104, 116, 116, 112, 58, 47, 47, 104, 47, 97, 99, 98>>
U2 == <<104, 116, 116, 112, 58, 47, 47, 104, 47, 98, 97, 99>>
U3 == <<104, 116, 116, 112, 58, 47, 47, 103, 47, 120>>
\* "HTTP://g/x", a request URL whose parsed form prints as U3
U4 == <<72, 84, 84, 80, 58, 47, 47, 103, 47, 120>>
\* "http://g/x/720072": U3 with the checksum of the query text Q1 joined to its path
UQ == <<104, 116, 116, 112, 58, 47, 47, 103, 47, 120, 47, 55, 50, 48, 48, 55, 50>>
\* "q", the text of a query
Q1 == <<113>>

\* a parsed URL as Do sees it: loc.String() and loc.Hostname()
Locs == { [url |-> U1, host |-> "h"],
          [url |-> U2, host |-> "h"],
          [url |-> U3, host |-> "g"],
          [url |-> UQ, host |-> "g"] }
\* the url strings given to Get
URLs == { l.url : l \in Locs } \cup {U4}

\* the live responses: the content-type header and the body stream
Responses == { [ct |-> "text/plain",       body |-> [i \in 1..MaxLen |-> i]],
               [ct |-> "application/json", body |-> <<9>>] }
\* what the origin answers for a url: the resource at U3 changes between
\* requests, the one at U2 is text and the others are JSON
Served(l) ==
    IF l.url = U3 THEN Responses
    ELSE IF l.url = U2 THEN { r \in Responses : r.ct = "text/plain" }
    ELSE { r \in Responses : r.ct = "application/json" }

\* ---------------------------------------------------------------- errors
Nil         == "nil"
errMissing  == "missing"
errExpired  == "expired"
ErrConsumer == "consumer error"      \* an error returned by the caller's consumer
ErrNotExist == "open: no such file"  \* os.Open on a removed file
ErrMkdir    == "mkdir failed"        \* os.MkdirAll failure
ErrCreate   == "create failed"       \* os.Create failure
ErrTx       == "tx failed"           \* bolt Update failure
ErrNotOpen  == "database not open"   \* bolt View / Update on a closed handle
ErrOpen     == "open failed"         \* bolt.Open failure
ErrBuckets  == "create bucket failed" \* failure of the Update that creates the buckets
ErrRemove   == "remove: no such file" \* os.Remove of a file that does not exist
ConsumerResults == {Nil, ErrConsumer}
ErrEncode   == "encode failed"       \* encodeJSON failure
ErrNet      == "request failed"      \* http.Client.Do failure
ErrStatus   == "status >= 400"       \* the error made from a status of 400 or more
ErrHook     == "hook failed"         \* an error of a response hook
ErrGzip     == "gzip: invalid header" \* the error of gzip.NewReader

\* ---------------------------------------------------------------- hashing
\* hash/adler32.Checksum: a = 1 + sum of bytes, b = sum of the a's, mod 65521
RECURSIVE adlerUpdate(_, _, _)
adlerUpdate(s, a, b) ==
    IF s = <<>> THEN b * 65536 + a
    ELSE LET a2 == (a + Head(s)) % 65521
         IN  adlerUpdate(Tail(s), a2, (b + a2) % 65521)

Checksum(s) == adlerUpdate(s, 1, 0)

\* xxh.Sum64(str, 0), as the 8 bytes of the 64-bit value, most significant first
Sum64(s) ==
    CASE s = U1 -> <<65, 137, 90, 68, 40, 169, 68, 49>>
      [] s = U2 -> <<8, 179, 10, 144, 147, 205, 106, 237>>
      [] s = U3 -> <<140, 19, 103, 151, 94, 191, 35, 50>>
      [] s = U4 -> <<7, 54, 61, 239, 153, 71, 101, 177>>
      [] s = UQ -> <<0, 47, 218, 41, 202, 118, 125, 244>>

HexDigit(n) == <<"0","1","2","3","4","5","6","7","8","9","a","b","c","d","e","f">>[n + 1]

RECURSIVE Nibbles(_)
Nibbles(bs) == IF bs = <<>> THEN <<>>
               ELSE <<Head(bs) \div 16, Head(bs) % 16>> \o Nibbles(Tail(bs))

RECURSIVE StripZeros(_)
StripZeros(ns) == IF Len(ns) > 1 /\ Head(ns) = 0 THEN StripZeros(Tail(ns)) ELSE ns

RECURSIVE PadLeft(_, _)
PadLeft(s, w) == IF Len(s) >= w THEN s ELSE PadLeft(<<" ">> \o s, w)

\* fmt.Sprintf("%16x", v): hexadecimal without leading zeros, space padded to 16
Sprintf16x(v) ==
    LET ds == StripZeros(Nibbles(v))
    IN  PadLeft([i \in 1..Len(ds) |-> HexDigit(ds[i])], 16)

\* filecache.key
filekey(str) == Checksum(str)

\* filecache.prepare: the path of the payload file (MkdirAll is in the action)
preparePath(url, dir) == <<".cache", dir, Sprintf16x(Sum64(url))>>

\* boltcache.key: binary.BigEndian.PutUint64 of the hash
boltkey(str) == Sum64(str)

\* the tables below are evaluated once
FileKeyOf  == [u \in URLs |-> filekey(u)]
BoltKeyOf  == [u \in URLs |-> boltkey(u)]
FilePathOf == [l \in Locs |-> preparePath(l.url, l.host)]

\* the w bytes of n, most significant first
RECURSIVE BigEndian(_, _)
BigEndian(n, w) == IF w = 0 THEN <<>> ELSE Append(BigEndian(n \div 256, w - 1), n % 256)

\* ---------------------------------------------------------------- URLs
\* the index of the first ':' of a URL string (0 when there is none)
RECURSIVE colon(_, _)
colon(u, i) == IF i > Len(u) THEN 0 ELSE IF u[i] = 58 THEN i ELSE colon(u, i + 1)

\* strings.ToLower of one byte
lower(b) == IF b >= 65 /\ b <= 90 THEN b + 32 ELSE b

\* urllib.Parse(u) followed by String(): the scheme is lower-cased, the rest of
\* the URLs used here is printed as it was written
String(u) == [i \in 1..Len(u) |-> IF i < colon(u, 1) THEN lower(u[i]) ELSE u[i]]

\* fmt.Sprintf("%x", v) as bytes, for a 32-bit v
RECURSIVE hexBytes(_)
hexBytes(ns) == IF ns = <<>> THEN <<>>
                ELSE <<IF Head(ns) < 10 THEN 48 + Head(ns) ELSE 87 + Head(ns)>>
                     \o hexBytes(Tail(ns))
Sprintfx(v) == hexBytes(StripZeros(Nibbles(BigEndian(v, 4))))

\* doQuery, line 853: path.Join(loc.Path, elem) as seen in loc.String()
JoinPath(u, elem) == u \o <<47>> \o elem

\* the parsed URL that doGet hands to Cache.Do (lines 842-843)
ParseLoc(u) == CHOOSE l \in Locs : l.url = String(u)

\* the parsed URL, with the checksum of the query joined to its path, whose
\* String() doQuery hands to Cache.Get and which it hands to Cache.Do
QueryLoc(u, query) == CHOOSE l \in Locs : l.url = JoinPath(String(u), Sprintfx(Checksum(query)))

\* ---------------------------------------------------------------- time encoding
RECURSIVE FromBigEndian(_)
FromBigEndian(bs) == IF bs = <<>> THEN 0
                     ELSE FromBigEndian(SubSeq(bs, 1, Len(bs) - 1)) * 256 + bs[Len(bs)]

\* time.Time.MarshalBinary: version, seconds (8), nanoseconds (4), zone offset (2, -1 = UTC)
MarshalBinary(t) == <<1>> \o BigEndian(t, 8) \o BigEndian(0, 4) \o <<255, 255>>

\* a faulty variant of UnmarshalBinary: no data is read as the zero time
UnmarshalBinaryNoData(bs) ==
    IF Len(bs) = 0 THEN [err |-> Nil, when |-> 0]
    ELSE IF bs[1] # 1 THEN [err |-> "unsupported version", when |-> 0]
    ELSE IF Len(bs) # 15 THEN [err |-> "invalid length", when |-> 0]
    ELSE [err |-> Nil, when |-> FromBigEndian(SubSeq(bs, 2, 9))]

\* time.Time.UnmarshalBinary: an error for no data, a wrong version or a wrong length
UnmarshalBinary(bs) ==
    IF Len(bs) = 0 THEN [err |-> "no data", when |-> 0]
    ELSE IF bs[1] # 1 THEN [err |-> "unsupported version", when |-> 0]
    ELSE IF Len(bs) # 15 THEN [err |-> "invalid length", when |-> 0]
    ELSE [err |-> Nil, when |-> FromBigEndian(SubSeq(bs, 2, 9))]

\* ---------------------------------------------------------------- state
VARIABLES
    locs,       \* the parsed URLs the callers use
    roles,      \* caller -> the calls it makes: "do", "get", "open", "close", "client"
    req,        \* caller -> the Client request it is in: doGet or doQuery, its
                \* position and what it did so far
    backend,    \* "file", "bolt" or "noop": the Cache the client was built with
    ttl,        \* filecache.ttl / boltcache.ttl
    size,       \* filecache.size
    now,        \* the wall clock
    mu,         \* filecache.mu: its holder, or "free"
    items,      \* filecache.items: key -> item
    files,      \* the payload files on disk: path -> content
    db,         \* the store of the boltcache in use: the buckets time, data and
                \* type, each key -> bytes, whether its handle is open, and
                \* whether the file .cache exists
    proc,       \* the callers: position, arguments, locals and result
    jan,        \* the janitor goroutine: position and the tick it is handling; until
                \* its next wake-up, the keys its last sweep removed (gone) and left (kept)
    tick,       \* the channel of time.Tick (capacity 1): the pending tick, or -1
    nops,       \* live responses handed to a consumer returned by Do so far
    \* history, read by the properties only
    goodTime,   \* cache key -> the timestamp recorded by its last successful Do
    goodBytes,  \* filesystem backend: indexed key -> the bytes read by the consumer of
                \* the last successful Do of the key
    wlog,       \* embedded store: key -> [when, ct, bytes] of the last transaction
                \* committed for the key
    rt          \* {[key, url, done, ct, bytes, by, prev]} right after a successful Do
                \* of url (with cache key key) that was called with ct, read bytes and
                \* returned at time done; by = the Get that follows it;
                \* prev = the timestamp recorded by the successful Do before it, or -1

vars == <<locs, roles, req, backend, ttl, size, now, mu, items, files, db, proc, jan, tick, nops,
          goodTime, goodBytes, wlog, rt>>

NoPath == <<>>
NoItem == [when |-> -1, file |-> NoPath, dtype |-> ""]

\* no request; the fields of a request: its arguments (url, query), the value
\* of Cache.Get (getres) and when it was called (t0), the runs of the consumer
\* on cached bytes (cached) and on the live response (live), the calls of
\* c.execute (net), what it gave (out, resp), the caller's do ("func", or
\* "nil" for a nil DoFunc), whether do was replaced by the
\* consumer of Cache.Do (wrapped), the value returned (res), and had: the
\* timestamp recorded for the request's key when the request started, or -1;
\* qvars: the variables of a Query; stored: the variables of the caller's last
\* Query whose response was stored with a nil result
NoReq == [stage |-> "none", kind |-> "none", url |-> <<>>, query |-> <<>>,
          getres |-> Nil, t0 |-> 0, cached |-> 0, live |-> 0, net |-> 0, out |-> "none",
          resp |-> [ct |-> "", body |-> <<>>], wrapped |-> FALSE, res |-> Nil, had |-> -1,
          qvars |-> "none", stored |-> "none",
          rel |-> 0, list |-> <<>>, seen |-> {}, fetched |-> <<>>, order |-> <<>>,
          do |-> "func"]

Idle == [pc |-> "idle", kind |-> "none", url |-> <<>>, host |-> "", ct |-> "",
         body |-> <<>>, file |-> NoPath, item |-> NoItem,
         errd |-> Nil, errb |-> Nil, res |-> Nil, calls |-> 0, seenCt |-> "", seenBytes |-> <<>>,
         t0 |-> 0, h |-> "cur", off |-> 0, unlinked |-> FALSE, inode |-> <<>>, full |-> FALSE,
         cut |-> FALSE, good |-> <<>>]

Configs ==
    { [backend |-> "file", ttl |-> TTL, size |-> Cap],
      [backend |-> "file", ttl |-> 0, size |-> Cap],
      [backend |-> "file", ttl |-> -1, size |-> Cap],
      [backend |-> "file", ttl |-> 0, size |-> 0] }
    \cup { [backend |-> "bolt", ttl |-> t, size |-> 0] : t \in {-1, 0, TTL} }
    \cup { [backend |-> "noop", ttl |-> 0, size |-> 0] }

EmptyMap == [k \in {} |-> 0]

\* BoltCache, lines 192-211: the file is removed, bolt.Open creates it anew
\* and the three buckets are created empty; open: the handle b.db is open,
\* file: cacheFile exists
NewDB == [time |-> EmptyMap, data |-> EmptyMap, type |-> EmptyMap, open |-> TRUE, file |-> TRUE]

Init ==
    /\ \E c \in Configs : backend = c.backend /\ ttl = c.ttl /\ size = c.size
    \* the callers use two URLs whose keys differ in both backends
    /\ locs = { l \in Locs : l.url \in {U1, U3} }
    /\ roles = [p \in Procs |-> IF p = "p1" THEN {"do"} ELSE {"get"}]
    /\ now = 0
    /\ mu = "free"
    /\ items = EmptyMap
    /\ files = EmptyMap
    /\ db = NewDB
    /\ proc = [p \in Procs |-> Idle]
    /\ req = [p \in Procs |-> NoReq]
    /\ jan = [pc |-> IF backend = "file" /\ size > 0 THEN "wait" ELSE "off", n |-> 0,
             gone |-> {}, kept |-> {}]
    /\ tick = -1
    /\ nops = 0
    /\ goodTime = EmptyMap
    /\ goodBytes = EmptyMap
    /\ wlog = EmptyMap
    /\ rt = {}

Set(p, r) == [proc EXCEPT ![p] = r]

\* The callers are goroutines without state of their own between calls; roles
\* says which calls each of them makes.  In Spec "p1" makes the calls of the
\* consumers returned by Do and "p2" the calls of Get, so a Get overlaps a Do
\* in every possible way.  A caller reads the result of
\* its call (Return) before anything else happens.
Quiet == \A q \in Procs : proc[q].pc # "ret"

MayCall(p, kind) ==
    /\ Quiet
    /\ proc[p].pc = "idle"
    /\ kind \in roles[p]
    /\ kind = "do" => nops < MaxDo

\* a call as it starts, and as it ends: what it returned (res), how often it
\* ran the consumer (calls), what the consumer returned (errd) and was given
Call(kind, u) == [Idle EXCEPT !.kind = kind, !.url = u]
Ret(c, res)   == [Idle EXCEPT !.pc = "ret", !.kind = c.kind, !.url = c.url, !.t0 = c.t0,
                              !.item = c.item, !.res = res, !.errd = c.errd, !.errb = c.errb,
                              !.calls = c.calls, !.seenCt = c.seenCt, !.seenBytes = c.seenBytes,
                              !.full = c.full, !.cut = c.cut, !.good = c.good]
Consumed(c, ct, bytes, e) ==
    [c EXCEPT !.calls = @ + 1, !.seenCt = ct, !.seenBytes = bytes, !.errd = e]

Put(f, k, v) == [x \in DOMAIN f \cup {k} |-> IF x = k THEN v ELSE f[x]]
Del(f, k)    == [x \in DOMAIN f \ {k} |-> f[x]]
Lookup(f, k) == IF k \in DOMAIN f THEN f[k] ELSE <<>>     \* bucket.Get: nil when absent

\* the key under which the backend in use stores the entry of a URL string
CacheKey(u) == IF backend = "file" THEN FileKeyOf[u] ELSE BoltKeyOf[u]

RtClear   == rt' = {}
RtKeep(p) == rt' = { r \in rt : r.by = p }

\* a faulty variant of disabled: a time-to-live of zero does not disable caching
disabledNegative(t) == t < 0

\* the guard of Get and Do of both backends (lines 59, 70, 220, 227): caching
\* is disabled
disabled(t) == t <= 0

\* ---------------------------------------------------------------- calls
\* the caller has read the result of its call
Return(p) ==
    /\ proc[p].pc = "ret"
    /\ proc' = Set(p, Idle)
    /\ rt' = { r \in rt : r.by # p }
    /\ UNCHANGED <<wlog, locs, roles, req, backend, ttl, size, now, mu, items, files, db, jan, tick, nops,
                   goodTime, goodBytes>>

\* the Get that directly follows a successful Do of the same key is noted in rt
RtGet(p, u) == rt' = { [r EXCEPT !.by = p] : r \in { x \in rt : x.by = "none" /\ x.key = CacheKey(u) } }

\* ---------------------------------------------------------------- null backend
\* NewClient, line 707: the cache of a client built without a cache option
NewClientCache == "noop"

\* a faulty variant of noopGet: the null backend reports a hit
noopGetNil == Nil

\* noopcache.Get, line 173: what it returns
noopGet == errMissing

\* noopcache.Get
NoopGet(p, u) ==
    /\ backend = "noop"
    /\ MayCall(p, "get")
    /\ nops' = nops
    /\ proc' = Set(p, Ret([Call("get", u) EXCEPT !.t0 = now], noopGet))
    /\ RtClear
    /\ UNCHANGED <<wlog, locs, roles, req, backend, ttl, size, now, mu, items, files, db, jan, tick,
                   goodTime, goodBytes>>

\* noopcache.Do, and filecache.Do / boltcache.Do with ttl <= 0: the consumer
\* handed back is do itself, which is then called with the live response
UnwrappedDo(p, l, r) ==
    /\ backend = "noop" \/ disabled(ttl)
    /\ MayCall(p, "do")
    /\ nops' = nops + 1
    /\ proc' = Set(p, [Call("do", l.url) EXCEPT !.pc = "plain_consume", !.host = l.host,
                                                !.ct = r.ct, !.body = r.body])
    /\ RtClear
    /\ UNCHANGED <<wlog, locs, roles, req, backend, ttl, size, now, mu, items, files, db, jan, tick,
                   goodTime, goodBytes>>

\* do reads the first n bytes of the live stream and returns e
UnwrappedReturn(p, n, e) ==
    /\ Quiet
    /\ proc[p].pc = "plain_consume"
    /\ n <= Len(proc[p].body)
    /\ LET c == proc[p] IN
       proc' = Set(p, Ret(Consumed(c, c.ct, SubSeq(c.body, 1, n), e), e))
    /\ RtClear
    /\ UNCHANGED <<wlog, locs, roles, req, backend, ttl, size, now, mu, items, files, db, jan, tick, nops,
                   goodTime, goodBytes>>

\* ---------------------------------------------------------------- filesystem backend
\* a faulty variant of isExpired: an entry of age exactly t still counts as fresh
isExpiredLate(i, t) == t <= 0 \/ now - i.when > t

\* item.isExpired
isExpired(i, t) == t <= 0 \/ now - i.when >= t

\* a faulty variant of makeItem: the content type is not kept
makeItemNoType(file, dtype) == [when |-> now, file |-> file, dtype |-> ""]

\* makeItem
makeItem(file, dtype) == [when |-> now, file |-> file, dtype |-> dtype]

\* a faulty variant of expire: the whole index is dropped
expireAll(key) == EmptyMap

\* a faulty variant of found: an entry is served once
foundOnce(key) == Del(items, key)

\* filecache.get, line 116: return i, nil; the index is only read
found(key) == items

\* filecache.get, line 113: delete(c.items, key); the file is left alone
expire(key) == Del(items, key)

\* filecache.Get, lines 59-62, and filecache.get: the ttl guard, then the
\* critical section on the index, entered when the mutex is free
FileGet(p, u) ==
    /\ backend = "file"
    /\ MayCall(p, "get")
    /\ nops' = nops
    /\ LET c   == [Call("get", u) EXCEPT !.t0 = now]
           key == FileKeyOf[u]
       IN
         IF disabled(ttl)
         THEN /\ proc' = Set(p, Ret(c, errExpired))
              /\ items' = items
         ELSE /\ mu = "free"
              /\ IF key \notin DOMAIN items
                 THEN /\ proc' = Set(p, Ret(c, errMissing))
                      /\ items' = items
                 ELSE IF isExpired(items[key], ttl)
                 THEN /\ proc' = Set(p, Ret([c EXCEPT !.item = items[key]], errExpired))
                      /\ items' = expire(key)
                 ELSE /\ proc' = Set(p, [c EXCEPT !.pc = "get_open", !.item = items[key],
                                                   !.good = Lookup(goodBytes, key)])
                      /\ items' = found(key)
    /\ goodBytes' = [k \in DOMAIN goodBytes \cap DOMAIN items' |-> goodBytes[k]]
    /\ RtGet(p, u)
    /\ UNCHANGED <<wlog, locs, roles, req, backend, ttl, size, now, mu, files, db, jan, tick,
                   goodTime>>

\* a faulty variant of itemPath: the path is computed again from the URL of
\* the Get
itemPathOfURL(c) == preparePath(c.url, (CHOOSE l \in Locs : l.url = String(c.url)).host)

\* item.get, line 162: the file that is opened is the one recorded in the item
itemPath(c) == c.item.file

\* item.get, lines 162-167: os.Open; when it succeeds do is called with the
\* type of the item and the open file, of which it has read nothing yet
FileGetOpen(p) ==
    /\ Quiet
    /\ proc[p].pc = "get_open"
    /\ LET c == proc[p]
           i == c.item
       IN
         IF itemPath(c) \notin DOMAIN files
         THEN proc' = Set(p, Ret(c, ErrNotExist))
         ELSE proc' = Set(p, [Consumed(c, i.dtype, <<>>, Nil)
                                 EXCEPT !.pc = "get_read", !.file = itemPath(c)])
    /\ RtKeep(p)
    /\ UNCHANGED <<wlog, locs, roles, req, backend, ttl, size, now, mu, items, files, db, jan, tick, nops,
                   goodTime, goodBytes>>

\* what the open file of c holds now: the file of its path, which a later
\* os.Create of the path truncates and a wrapped write extends, or what the
\* file held when os.Remove unlinked it
opened(c) == IF c.unlinked THEN c.inode ELSE files[c.file]

\* one Read of the consumer of Get on the open file that yields a byte: the
\* byte at the offset of the reader. A Read at or past the end of the file
\* yields io.EOF and moves nothing; the consumer may return then or read
\* again later
FileGetRead(p) ==
    /\ Quiet
    /\ proc[p].pc = "get_read"
    /\ proc[p].off < Len(opened(proc[p]))
    /\ LET c == proc[p] IN
         proc' = Set(p, [c EXCEPT !.off = @ + 1,
                                  !.seenBytes = Append(@, opened(c)[c.off + 1])])
    /\ RtKeep(p)
    /\ UNCHANGED <<wlog, locs, roles, req, backend, ttl, size, now, mu, items, files, db, jan, tick, nops,
                   goodTime, goodBytes>>

\* the consumer of Get returns e, whether it has read to the end or not
\* (full: the consumer has read up to the end of what the open file holds
\* now); the deferred r.Close() runs and e is returned
FileGetConsumerReturn(p, e) ==
    /\ Quiet
    /\ proc[p].pc = "get_read"
    /\ LET c == proc[p] IN
         proc' = Set(p, Ret([c EXCEPT !.errd = e, !.full = (c.off >= Len(opened(c)))], e))
    /\ RtKeep(p)
    /\ UNCHANGED <<wlog, locs, roles, req, backend, ttl, size, now, mu, items, files, db, jan, tick, nops,
                   goodTime, goodBytes>>

\* the file that c reads, of which it has read a part, is the one that an
\* os.Create of path truncates (cut: this has happened to the reader)
cutBy(c, path) == c.pc = "get_read" /\ ~ c.unlinked /\ c.file = path /\ c.off > 0

\* filecache.Do and the call of the consumer it returns, lines 70-87: the mutex
\* is taken, c.prepare gives the path and makes the directories, os.Create
\* creates the file or truncates the one that exists; when either fails (out)
\* the error is returned and the deferred Unlock runs
FileDoCreate(p, l, r, out) ==
    /\ backend = "file"
    /\ ~ disabled(ttl)
    /\ MayCall(p, "do")
    /\ nops' = nops + 1
    /\ mu = "free"
    /\ LET c    == [Call("do", l.url) EXCEPT !.host = l.host, !.ct = r.ct, !.body = r.body]
           file == FilePathOf[l]
       IN
         IF out = Nil
         THEN /\ mu' = p
              /\ files' = Put(files, file, <<>>)
              /\ proc' = [q \in Procs |->
                             IF q = p THEN [c EXCEPT !.pc = "do_consume", !.file = file]
                             ELSE IF cutBy(proc[q], file) THEN [proc[q] EXCEPT !.cut = TRUE]
                             ELSE proc[q]]
         ELSE /\ proc' = Set(p, Ret(c, out))
              /\ UNCHANGED <<mu, files>>
    /\ RtClear
    /\ UNCHANGED <<wlog, locs, roles, req, backend, ttl, size, now, items, db, jan, tick, goodTime, goodBytes>>

\* a faulty variant of insert: an index that is full is emptied first
insertBounded(key, i) ==
    IF size > 0 /\ Cardinality(DOMAIN items) >= size THEN Put(EmptyMap, key, i)
                                                     ELSE Put(items, key, i)

\* line 90: c.items[key] = the item; nothing is compared with c.size
insert(key, i) == Put(items, key, i)

\* a faulty variant of unlock: the mutex is released when do succeeded only
unlockOnSuccess(e) == IF e = Nil THEN "free" ELSE mu

\* lines 77 and 87: the deferred c.mu.Unlock() and w.Close() run when the
\* function returns, whatever do returned
unlock(e) == "free"

\* a faulty variant of registers: the item is registered whatever do returned
registersAlways(e) == TRUE

\* lines 89-91: the item is registered when do returned no error
registers(e) == e = Nil

\* line 89: one Read of do on io.TeeReader(r, w): the next byte of the live
\* stream is handed to do and written to the file at once
FileDoRead(p) ==
    /\ Quiet
    /\ proc[p].pc = "do_consume"
    /\ proc[p].off < Len(proc[p].body)
    /\ LET c == proc[p] IN
         /\ files' = [files EXCEPT ![c.file] = Append(@, c.body[c.off + 1])]
         /\ proc' = Set(p, [c EXCEPT !.off = @ + 1])
    /\ UNCHANGED <<wlog, locs, roles, req, backend, ttl, size, now, mu, items, db, jan, tick, nops,
                   goodTime, goodBytes, rt>>

\* lines 89-92: do, which has read the first c.off bytes of the live stream,
\* returns e; the item is registered when e is nil; then the deferred
\* w.Close() and c.mu.Unlock() run and e is returned
FileDoConsumerReturn(p, e) ==
    /\ Quiet
    /\ proc[p].pc = "do_consume"
    /\ LET c   == proc[p]
           key == FileKeyOf[c.url]
           buf == SubSeq(c.body, 1, c.off)
       IN
         /\ IF registers(e)
            THEN /\ items' = insert(key, makeItem(c.file, c.ct))
                 /\ goodTime' = Put(goodTime, key, now)
                 /\ goodBytes' = Put(goodBytes, key, buf)
                 /\ rt' = { [key |-> key, url |-> c.url, done |-> now, ct |-> c.ct, bytes |-> buf,
                             by |-> "none",
                             prev |-> IF key \in DOMAIN goodTime THEN goodTime[key] ELSE -1] }
            ELSE /\ UNCHANGED <<items, goodTime, goodBytes>>
                 /\ RtClear
         /\ proc' = Set(p, Ret(Consumed(c, c.ct, buf, e), e))
    /\ mu' = unlock(e)
    /\ UNCHANGED <<wlog, locs, roles, req, backend, ttl, size, now, files, db, jan, tick, nops>>

\* ---------------------------------------------------------------- janitor and clock
\* FileCache, lines 51-54: the interval handed to clean
cleanWait == IF ttl = 0 THEN ttl * 5 ELSE ttl

\* the wall clock advances; time.Tick(wait) sends on its channel every wait
\* (never when wait <= 0) and drops the tick when the channel is full
Tick ==
    /\ Quiet
    /\ now < MaxTime
    /\ now' = now + 1
    /\ tick' = IF jan.pc # "off" /\ cleanWait > 0 /\ (now + 1) % cleanWait = 0 /\ tick = -1
               THEN now + 1 ELSE tick
    /\ UNCHANGED <<wlog, locs, roles, req, backend, ttl, size, mu, items, files, db, proc, jan, nops,
                   goodTime, goodBytes, rt>>

\* filecache.clean, lines 123-126: a tick is received, len(c.items) is compared
\* with c.size without the mutex
JanWake ==
    /\ Quiet
    /\ jan.pc = "wait"
    /\ tick # -1
    /\ tick' = -1
    /\ jan' = IF Cardinality(DOMAIN items) < size
              THEN [pc |-> "wait", n |-> 0, gone |-> {}, kept |-> {}]
              ELSE [pc |-> "sweep", n |-> tick, gone |-> {}, kept |-> {}]
    /\ UNCHANGED <<wlog, locs, roles, req, backend, ttl, size, now, mu, items, files, db, proc, nops,
                   goodTime, goodBytes, rt>>

\* a faulty variant of swept: the sweep empties the index
sweptAll(n) == DOMAIN items

\* a faulty variant of swept: the sweep removes every entry written up to
\* the tick, whatever its age
sweptUpToTick(n) == { k \in DOMAIN items : items[k].when <= n }

\* the entries the sweep of tick n removes
swept(n) == { k \in DOMAIN items : ~ (n - items[k].when < cleanWait) }

\* filecache.clean, lines 127-135: the sweep, under the mutex
\* a faulty variant of osRemove: the files of the entries that stay are
\* removed as well
osRemoveAll(gone) == { items[k].file : k \in DOMAIN items }

\* line 133: os.Remove(i.file) for every entry the loop deletes
osRemove(gone) == { items[k].file : k \in gone }

JanSweep ==
    /\ Quiet
    /\ jan.pc = "sweep"
    /\ mu = "free"
    /\ LET gone == swept(jan.n) IN
         /\ items' = [k \in DOMAIN items \ gone |-> items[k]]
         /\ files' = [f \in DOMAIN files \ osRemove(gone) |-> files[f]]
    /\ jan' = [pc |-> "wait", n |-> 0, gone |-> swept(jan.n),
                                     kept |-> DOMAIN items \ swept(jan.n)]
    /\ RtClear
    /\ goodBytes' = [k \in DOMAIN goodBytes \cap DOMAIN items' |-> goodBytes[k]]
    \* a file that a Get has open stays readable through that handle
    /\ proc' = [q \in Procs |->
                 IF /\ proc[q].pc = "get_read" /\ ~ proc[q].unlinked
                    /\ proc[q].file \in osRemove(swept(jan.n))
                 THEN [proc[q] EXCEPT !.unlinked = TRUE, !.inode = files[proc[q].file]]
                 ELSE proc[q]]
    /\ UNCHANGED <<wlog, locs, roles, req, backend, ttl, size, now, mu, db, tick, nops, goodTime>>

\* ---------------------------------------------------------------- embedded-store backend
\* []byte(ct) as stored in the type bucket, and string(b) of what the bucket returns
stringToBytes(str) == <<str>>

bytesToString(bs) == IF bs = <<>> THEN "" ELSE bs[1]

\* boltcache.Get and boltcache.get: the ttl guard, then one read-only
\* transaction, which db.View refuses when the handle is closed; the
\* consumer runs inside it and returns e
BoltGet(p, u, e) ==
    /\ backend = "bolt"
    /\ MayCall(p, "get")
    /\ nops' = nops
    /\ LET c    == [Call("get", u) EXCEPT !.t0 = now]
           key  == BoltKeyOf[u]
           when == UnmarshalBinary(Lookup(db.time, key))
       IN  proc' = Set(p,
             IF disabled(ttl) THEN Ret(c, errMissing)
             ELSE IF ~ db.open THEN Ret(c, ErrNotOpen)
             ELSE IF when.err # Nil THEN Ret(c, errMissing)
             ELSE IF now - when.when >= ttl THEN Ret(c, errExpired)
             ELSE Ret([Consumed(c, bytesToString(Lookup(db.type, key)), Lookup(db.data, key), e)
                           EXCEPT !.full = TRUE], e))
    /\ RtGet(p, u)
    /\ UNCHANGED <<wlog, locs, roles, req, backend, ttl, size, now, mu, items, files, db, jan, tick,
                   goodTime, goodBytes>>

\* boltcache.Do and the call of the consumer it returns, up to line 265 of
\* boltcache.do: now is read before do runs
BoltDo(p, l, r) ==
    /\ backend = "bolt"
    /\ ~ disabled(ttl)
    /\ MayCall(p, "do")
    /\ nops' = nops + 1
    /\ proc' = Set(p, [Call("do", l.url) EXCEPT !.pc = "bdo_consume", !.host = l.host,
                                                !.ct = r.ct, !.body = r.body, !.t0 = now])
    /\ RtClear
    /\ UNCHANGED <<wlog, locs, roles, req, backend, ttl, size, now, mu, items, files, db, jan, tick,
                   goodTime, goodBytes>>

\* a faulty variant of boltPut: only the first Put of the transaction is applied
boltPutTimeOnly(key, ns, data, ct) == [db EXCEPT !.time = Put(db.time, key, ns)]

\* the three Put of lines 267-284
boltPut(key, ns, data, ct) ==
    [db EXCEPT !.time = Put(db.time, key, ns),
               !.data = Put(db.data, key, data),
               !.type = Put(db.type, key, stringToBytes(ct))]

\* a faulty variant of boltWrite: the timestamp is the time of the commit
boltWriteCommitTime(c, buf, errd) == boltPut(BoltKeyOf[c.url], MarshalBinary(now), buf, c.ct)

\* what boltcache.do writes once do has returned errd with buf filled
boltWrite(c, buf, errd) == boltPut(BoltKeyOf[c.url], MarshalBinary(c.t0), buf, c.ct)

\* a faulty variant of boltResult: the error of the transaction comes first
boltResultStoreFirst(errd, errb) == IF errb # Nil THEN errb ELSE errd

\* lines 285-288: what boltcache.do returns after do returned errd and the
\* transaction errb
boltResult(errd, errb) == IF errd # Nil THEN errd ELSE errb

\* the handle b.db of the boltcache on which the call c was made is open:
\* c.h says whether BoltCache was called again since the call started ("cur"
\* when not) and whether the handle was open then
handleOpen(c) == IF c.h = "cur" THEN db.open ELSE c.h = "old"

\* lines 266-288: do reads the first n bytes of the live stream, which
\* io.TeeReader copies into buf, and returns errd; then the read-write
\* transaction commits (ok) or fails, and it fails when the handle is closed;
\* then errd is returned when it is not nil and the transaction's error
\* otherwise. The transaction of a call made before BoltCache was called
\* again writes into the file that was removed, not into the present one.
BoltDoUpdate(p, n, errd, ok) ==
    /\ Quiet
    /\ proc[p].pc = "bdo_consume"
    /\ n <= Len(proc[p].body)
    /\ ~ handleOpen(proc[p]) => ~ ok
    /\ LET c   == proc[p]
           buf == SubSeq(c.body, 1, n)
           key == BoltKeyOf[c.url]
           errb == IF ~ handleOpen(c) THEN ErrNotOpen ELSE IF ok THEN Nil ELSE ErrTx
           res == boltResult(errd, errb)
           here == ok /\ c.h = "cur"
       IN
         /\ db' = IF here THEN boltWrite(c, buf, errd) ELSE db
         /\ wlog' = IF here THEN Put(wlog, key, [when |-> c.t0, ct |-> c.ct, bytes |-> buf])
                            ELSE wlog
         /\ goodTime' = IF here /\ errd = Nil THEN Put(goodTime, key, c.t0) ELSE goodTime
         /\ proc' = Set(p, Ret([Consumed(c, c.ct, buf, errd)
                                    EXCEPT !.errb = errb], res))
         /\ rt' = IF res = Nil /\ here
                  THEN { [key |-> key, url |-> c.url, done |-> now, ct |-> c.ct, bytes |-> buf,
                             by |-> "none",
                          prev |-> IF key \in DOMAIN goodTime THEN goodTime[key] ELSE -1] }
                  ELSE {}
    /\ UNCHANGED <<locs, roles, req, backend, ttl, size, now, mu, items, files, jan, tick, nops, goodBytes>>

\* the outcomes of BoltCache: it succeeds, bolt.Open fails (lines 194-196),
\* or the Update that creates the buckets fails (line 211)
OpenOutcomes == {"ok", "open", "buckets"}

\* BoltCache, lines 191-212, called again (after Close or without it):
\* os.Remove deletes the file and bolt.Open creates a new one. When all
\* succeeds the three buckets are there, empty, and the callers use the new
\* boltcache from now on. When bolt.Open fails, nil and its error are
\* returned and the file is gone. When the creation of the buckets fails, the
\* error is returned with a boltcache that the caller drops, as WithBoltCache
\* does, and the new file is there. After a failure the callers go on with
\* the boltcache they have, whose handle is on the removed file. A call of
\* the consumer of Do that is under way keeps the handle it started with.
BoltReopen(p, out) ==
    /\ backend = "bolt"
    /\ MayCall(p, "open")
    /\ db' = IF out = "ok" THEN NewDB ELSE [db EXCEPT !.file = (out = "buckets")]
    /\ wlog' = IF out = "ok" THEN EmptyMap ELSE wlog
    /\ proc' = [q \in Procs |->
                 IF q = p THEN Ret(Call("open", <<>>), IF out = "ok" THEN Nil
                                                      ELSE IF out = "open" THEN ErrOpen
                                                      ELSE ErrBuckets)
                 ELSE IF out = "ok" /\ proc[q].pc = "bdo_consume" /\ proc[q].h = "cur"
                 THEN [proc[q] EXCEPT !.h = IF db.open THEN "old" ELSE "closed"]
                 ELSE proc[q]]
    /\ RtClear
    /\ UNCHANGED <<locs, roles, req, backend, ttl, size, now, mu, items, files, jan, tick, nops,
                   goodTime, goodBytes>>

\* boltcache.Close, lines 214-217: the handle is closed (bolt waits for the
\* transactions under way, which are single steps here) and the file is
\* removed; the value of os.Remove is returned
BoltClose(p) ==
    /\ backend = "bolt"
    /\ MayCall(p, "close")
    /\ db' = [NewDB EXCEPT !.open = FALSE, !.file = FALSE]
    /\ wlog' = EmptyMap
    /\ proc' = Set(p, Ret(Call("close", <<>>), IF db.file THEN Nil ELSE ErrRemove))
    /\ RtClear
    /\ UNCHANGED <<locs, roles, req, backend, ttl, size, now, mu, items, files, jan, tick, nops,
                   goodTime, goodBytes>>

\* ---------------------------------------------------------------- client
\* Client.doGet, lines 826-846, and Client.doQuery, lines 848-875, over the
\* cache of the client. A request walks through the stages "cacheget"
\* (Cache.Get is running), "execute" (the live request is next), "decode"
\* (decodeResponse calls do) and "done" (the value is returned).

\* the string handed to Cache.Get: url as written (line 828), or the String
\* of the parsed URL with the checksum of the query joined to its path (855)
GetKey(r) == IF r.kind = "get" THEN r.url ELSE QueryLoc(r.url, r.query).url

\* the URL handed to Cache.Do: urllib.Parse(url) (lines 842-843), or the
\* loc of doQuery (line 872)
DoLoc(r) == IF r.kind = "get" THEN ParseLoc(r.url) ELSE QueryLoc(r.url, r.query)

\* faulty variant of fallsThrough: doGet goes on after any error, as doQuery does
fallsThroughAny(kind, err) == err # Nil

\* faulty variant of fallsThrough: only a missing entry leads to a live request
fallsThroughMissing(kind, err) ==
    IF kind = "get" THEN err = errMissing ELSE err # Nil

\* whether the request goes on after Cache.Get returned err: the switch of
\* doGet, lines 828-833, and the test of doQuery, lines 855-857
fallsThrough(kind, err) ==
    IF kind = "get" THEN err \in {errMissing, errExpired} ELSE err # Nil

\* the entry of doGet(u, do) or doQuery(meth, u, query, in, do), where in is
\* the value that makeQuery built from query and the variables v
ClientStart(p, kind, u, query, v) ==
    /\ Quiet
    /\ "client" \in roles[p]
    /\ req[p].stage = "none" /\ proc[p].pc = "idle"
    /\ nops < MaxDo
    /\ kind = "get" => (query = <<>> /\ v = "none")
    /\ req' = [req EXCEPT ![p] =
                 [NoReq EXCEPT !.stage = "cacheget", !.kind = kind, !.url = u, !.query = query,
                               !.qvars = v, !.stored = req[p].stored,
                               !.had = LET k == CacheKey(DoLoc([kind |-> kind, url |-> u,
                                                                query |-> query]).url)
                                       IN  IF k \in DOMAIN goodTime THEN goodTime[k] ELSE -1]]
    /\ UNCHANGED <<wlog, locs, roles, backend, ttl, size, now, mu, items, files, db, proc, jan,
                   tick, nops, goodTime, goodBytes, rt>>

\* Cache.Get has returned: lines 828-833 and 855-857
ClientGetDone(p) ==
    /\ req[p].stage = "cacheget"
    /\ proc[p].pc = "ret" /\ proc[p].kind = "get"
    /\ LET c    == proc[p]
           more == fallsThrough(req[p].kind, c.res)
       IN  req' = [req EXCEPT ![p] =
                     [@ EXCEPT !.stage = IF more THEN "execute" ELSE "done",
                               !.getres = c.res, !.t0 = c.t0, !.cached = c.calls,
                               !.res = IF more THEN Nil ELSE c.res]]
    /\ proc' = Set(p, Idle)
    /\ rt' = { r \in rt : r.by # p }
    /\ UNCHANGED <<wlog, locs, roles, backend, ttl, size, now, mu, items, files, db, jan, tick,
                   nops, goodTime, goodBytes>>

\* what follows Cache.Get up to the call of do: encodeJSON (doQuery, lines
\* 859-862), c.execute (lines 837-840, 867-870), the replacement of do by
\* the consumer of Cache.Do (lines 841-844, 871-873) and the tests of
\* decodeResponse, lines 998-1010
ClientOutcomes(kind) ==
    {"error", "status", "hook", "nocontent", "gzip", "ok"}
       \cup (IF kind = "query" THEN {"encode"} ELSE {})

\* faulty variant of callsDo: a 204 response is handed to do as well
callsDoOnNoContent(out, do) == out \in {"ok", "nocontent"} /\ do # "nil"

\* whether decodeResponse(res, do) reaches do(content-type, body), line
\* 1030: the request was made, the status is below 400 (998-1002), no
\* response hook failed (1004-1006), the status is not 204 and do is not nil
\* (1008-1010), and the body of a response with content-encoding gzip has a
\* gzip header (1016-1026); out = "ok" stands for a response that passes all
\* tests on the response
callsDo(out, do) == out = "ok" /\ do # "nil"

\* what decodeResponse(res, do) returns when it returns before line 1030, in
\* the order of its tests: the error of the status (998-1002), the error of
\* the hook (1004-1006), nil for a 204 response or a nil do (1008-1010), and
\* only then the error of gzip.NewReader (1016-1026)
decodeError(out, do) ==
    CASE out = "status" -> ErrStatus
      [] out = "hook"   -> ErrHook
      [] out = "gzip" /\ do # "nil" -> ErrGzip
      [] OTHER          -> Nil

ClientExecute(p, out, r) ==
    /\ req[p].stage = "execute"
    /\ out \in ClientOutcomes(req[p].kind)
    /\ req' = [req EXCEPT ![p] =
                 [@ EXCEPT !.stage = IF callsDo(out, req[p].do) THEN "decode" ELSE "done",
                           !.out = out,
                           !.net = IF out = "encode" THEN @ ELSE @ + 1,
                           !.wrapped = out \notin {"encode", "error"},
                           !.resp = IF callsDo(out, req[p].do) THEN r ELSE @,
                           !.res = CASE out = "encode"    -> ErrEncode
                                     [] out = "error"     -> ErrNet
                                     [] OTHER -> decodeError(out, req[p].do)]]
    /\ UNCHANGED <<wlog, locs, roles, backend, ttl, size, now, mu, items, files, db, proc, jan,
                   tick, nops, goodTime, goodBytes, rt>>

\* do(content-type, body) has returned: decodeResponse, line 1030
ClientDoDone(p) ==
    /\ req[p].stage = "decode"
    /\ proc[p].pc = "ret" /\ proc[p].kind = "do"
    /\ req' = [req EXCEPT ![p] = [@ EXCEPT !.stage = "done", !.live = proc[p].calls,
                                           !.res = proc[p].res]]
    /\ proc' = Set(p, Idle)
    /\ rt' = { r \in rt : r.by # p }
    /\ UNCHANGED <<wlog, locs, roles, backend, ttl, size, now, mu, items, files, db, jan, tick,
                   nops, goodTime, goodBytes>>

\* doGet or doQuery returns req[p].res to its caller
ClientReturn(p) ==
    /\ req[p].stage = "done"
    /\ req' = [req EXCEPT ![p] =
                 [NoReq EXCEPT !.stored = IF /\ req[p].kind = "query" /\ backend # "noop"
                                             /\ req[p].live = 1 /\ req[p].res = Nil
                                          THEN req[p].qvars ELSE req[p].stored]]
    /\ UNCHANGED <<wlog, locs, roles, backend, ttl, size, now, mu, items, files, db, proc, jan,
                   tick, nops, goodTime, goodBytes, rt>>

\* ---------------------------------------------------------------- specification
Next ==
    \/ \E p \in Procs : Return(p)
    \/ \E p \in Procs, u \in { l.url : l \in locs } : NoopGet(p, u)
    \/ \E p \in Procs, l \in locs : \E r \in Served(l) : UnwrappedDo(p, l, r)
    \/ \E p \in Procs, n \in 0..MaxLen, e \in ConsumerResults : UnwrappedReturn(p, n, e)
    \/ \E p \in Procs, u \in { l.url : l \in locs } : FileGet(p, u)
    \/ \E p \in Procs : FileGetOpen(p)
    \/ \E p \in Procs : FileGetRead(p)
    \/ \E p \in Procs, e \in ConsumerResults : FileGetConsumerReturn(p, e)
    \/ \E p \in Procs, l \in locs : \E r \in Served(l), out \in {Nil, ErrMkdir, ErrCreate} :
          FileDoCreate(p, l, r, out)
    \/ \E p \in Procs : FileDoRead(p)
    \/ \E p \in Procs, e \in ConsumerResults : FileDoConsumerReturn(p, e)
    \/ \E p \in Procs, u \in { l.url : l \in locs }, e \in ConsumerResults : BoltGet(p, u, e)
    \/ \E p \in Procs, l \in locs : \E r \in Served(l) : BoltDo(p, l, r)
    \/ \E p \in Procs, n \in 0..MaxLen, e \in ConsumerResults, ok \in BOOLEAN :
          BoltDoUpdate(p, n, e, ok)
    \/ Tick
    \/ JanWake
    \/ JanSweep

Spec == Init /\ [][Next]_vars

\* ---------------------------------------------------------------- concurrent writers
\* Both callers call the consumers returned by Do for one URL, on a
\* filesystem or an embedded-store cache with a positive time-to-live; "p1"
\* also closes the embedded store and constructs it again, and "p2" calls
\* Get.
InitW ==
    /\ \E c \in { x \in Configs : x.backend \in {"file", "bolt"} /\ x.ttl > 0 } :
          backend = c.backend /\ ttl = c.ttl /\ size = c.size
    /\ locs = { l \in Locs : l.url = U3 }
    /\ roles = [p \in Procs |-> IF p = "p1" THEN {"do", "open", "close"}
                                            ELSE {"do", "get"}]
    /\ now = 0
    /\ mu = "free"
    /\ items = EmptyMap
    /\ files = EmptyMap
    /\ db = NewDB
    /\ proc = [p \in Procs |-> Idle]
    /\ req = [p \in Procs |-> NoReq]
    /\ jan = [pc |-> IF backend = "file" /\ size > 0 THEN "wait" ELSE "off", n |-> 0,
             gone |-> {}, kept |-> {}]
    /\ tick = -1
    /\ nops = 0
    /\ goodTime = EmptyMap
    /\ goodBytes = EmptyMap
    /\ wlog = EmptyMap
    /\ rt = {}

NextW ==
    \/ \E p \in Procs : Return(p)
    \/ \E p \in Procs, u \in { l.url : l \in locs } : FileGet(p, u)
    \/ \E p \in Procs : FileGetOpen(p)
    \/ \E p \in Procs : FileGetRead(p)
    \/ \E p \in Procs, e \in ConsumerResults : FileGetConsumerReturn(p, e)
    \/ \E p \in Procs, l \in locs : \E r \in Served(l), out \in {Nil, ErrMkdir, ErrCreate} :
          FileDoCreate(p, l, r, out)
    \/ \E p \in Procs : FileDoRead(p)
    \/ \E p \in Procs, e \in ConsumerResults : FileDoConsumerReturn(p, e)
    \/ \E p \in Procs, u \in { l.url : l \in locs }, e \in ConsumerResults : BoltGet(p, u, e)
    \/ \E p \in Procs, l \in locs : \E r \in Served(l) : BoltDo(p, l, r)
    \/ \E p \in Procs, n \in 0..MaxLen, e \in ConsumerResults, ok \in BOOLEAN :
          BoltDoUpdate(p, n, e, ok)
    \/ \E p \in Procs, out \in OpenOutcomes : BoltReopen(p, out)
    \/ \E p \in Procs : BoltClose(p)
    \/ Tick
    \/ JanWake
    \/ JanSweep

SpecW == InitW /\ [][NextW]_vars

\* ---------------------------------------------------------------- filesystem cache
\* The callers of Spec over a filesystem cache with a positive time-to-live
\* and a positive capacity, whose janitor is running.
InitF ==
    /\ backend = "file" /\ ttl = TTL /\ size = Cap
    /\ locs = { l \in Locs : l.url \in {U1, U3} }
    /\ roles = [p \in Procs |-> IF p = "p1" THEN {"do"} ELSE {"get"}]
    /\ now = 0
    /\ mu = "free"
    /\ items = EmptyMap
    /\ files = EmptyMap
    /\ db = NewDB
    /\ proc = [p \in Procs |-> Idle]
    /\ req = [p \in Procs |-> NoReq]
    /\ jan = [pc |-> "wait", n |-> 0, gone |-> {}, kept |-> {}]
    /\ tick = -1
    /\ nops = 0
    /\ goodTime = EmptyMap
    /\ goodBytes = EmptyMap
    /\ wlog = EmptyMap
    /\ rt = {}

NextF ==
    \/ \E p \in Procs : Return(p)
    \/ \E p \in Procs, u \in { l.url : l \in locs } : FileGet(p, u)
    \/ \E p \in Procs : FileGetOpen(p)
    \/ \E p \in Procs : FileGetRead(p)
    \/ \E p \in Procs, e \in ConsumerResults : FileGetConsumerReturn(p, e)
    \/ \E p \in Procs, l \in locs : \E r \in Served(l), out \in {Nil, ErrMkdir, ErrCreate} :
          FileDoCreate(p, l, r, out)
    \/ \E p \in Procs : FileDoRead(p)
    \/ \E p \in Procs, e \in ConsumerResults : FileDoConsumerReturn(p, e)
    \/ Tick
    \/ JanWake
    \/ JanSweep

SpecF == InitF /\ [][NextF]_vars

\* ---------------------------------------------------------------- nested calls
\* The caller's consumer, while it runs inside the consumer returned by Do,
\* calls Get on the same cache. sync.Mutex is not reentrant: the Lock of
\* filecache.get, line 105, waits until the mutex is free, whoever holds it.

\* a faulty variant of lockWaits: the goroutine that holds the mutex may lock
\* it again
lockWaitsForOthers(p) == backend = "file" /\ mu \notin {"free", p}

\* p, about to take the mutex of the cache, has to wait
lockWaits(p) == backend = "file" /\ mu # "free"

\* do, running for p, calls c.Get(u, ...) of the same cache
NestedCall(p) ==
    /\ Quiet
    /\ ~ disabled(ttl)
    /\ proc[p].pc \in {"do_consume", "bdo_consume"}
    /\ proc' = Set(p, [proc[p] EXCEPT !.pc = IF @ = "do_consume" THEN "do_nested"
                                                                ELSE "bdo_nested"])
    /\ UNCHANGED <<wlog, locs, roles, req, backend, ttl, size, now, mu, items, files, db, jan, tick,
                   nops, goodTime, goodBytes, rt>>

\* the nested Get has taken the mutex, where there is one, and has returned
\* to do, which goes on reading the live body
NestedReturn(p) ==
    /\ Quiet
    /\ proc[p].pc \in {"do_nested", "bdo_nested"}
    /\ ~ lockWaits(p)
    /\ proc' = Set(p, [proc[p] EXCEPT !.pc = IF @ = "do_nested" THEN "do_consume"
                                                               ELSE "bdo_consume"])
    /\ UNCHANGED <<wlog, locs, roles, req, backend, ttl, size, now, mu, items, files, db, jan, tick,
                   nops, goodTime, goodBytes, rt>>

InitR ==
    /\ \E c \in { x \in Configs : x.backend \in {"file", "bolt"} /\ x.ttl > 0 } :
          backend = c.backend /\ ttl = c.ttl /\ size = c.size
    /\ locs = { l \in Locs : l.url = U3 }
    /\ roles = [p \in Procs |-> IF p = "p1" THEN {"do"} ELSE {"get"}]
    /\ now = 0
    /\ mu = "free"
    /\ items = EmptyMap
    /\ files = EmptyMap
    /\ db = NewDB
    /\ proc = [p \in Procs |-> Idle]
    /\ req = [p \in Procs |-> NoReq]
    /\ jan = [pc |-> IF backend = "file" /\ size > 0 THEN "wait" ELSE "off", n |-> 0,
             gone |-> {}, kept |-> {}]
    /\ tick = -1
    /\ nops = 0
    /\ goodTime = EmptyMap
    /\ goodBytes = EmptyMap
    /\ wlog = EmptyMap
    /\ rt = {}

NextR ==
    \/ \E p \in Procs : Return(p)
    \/ \E p \in Procs, u \in { l.url : l \in locs } : FileGet(p, u)
    \/ \E p \in Procs : FileGetOpen(p)
    \/ \E p \in Procs : FileGetRead(p)
    \/ \E p \in Procs, e \in ConsumerResults : FileGetConsumerReturn(p, e)
    \/ \E p \in Procs, l \in locs : \E r \in Served(l), out \in {Nil, ErrMkdir, ErrCreate} :
          FileDoCreate(p, l, r, out)
    \/ \E p \in Procs : FileDoRead(p)
    \/ \E p \in Procs, e \in ConsumerResults : FileDoConsumerReturn(p, e)
    \/ \E p \in Procs, u \in { l.url : l \in locs }, e \in ConsumerResults : BoltGet(p, u, e)
    \/ \E p \in Procs, l \in locs : \E r \in Served(l) : BoltDo(p, l, r)
    \/ \E p \in Procs, n \in 0..MaxLen, e \in ConsumerResults, ok \in BOOLEAN :
          BoltDoUpdate(p, n, e, ok)
    \/ \E p \in Procs : NestedCall(p)
    \/ \E p \in Procs : NestedReturn(p)
    \/ Tick
    \/ JanWake
    \/ JanSweep

SpecR == InitR /\ [][NextR]_vars

\* ---------------------------------------------------------------- colliding keys
\* The callers of Spec use two URLs that have the same adler32 checksum, hence
\* one key in the index of the filesystem cache, and different xxh64 hashes,
\* hence two payload files and two keys in the embedded store.
InitK ==
    /\ \E c \in Configs : backend = c.backend /\ ttl = c.ttl /\ size = c.size
    /\ locs = { l \in Locs : l.url \in {U1, U2} }
    /\ roles = [p \in Procs |-> IF p = "p1" THEN {"do"} ELSE {"get"}]
    /\ now = 0
    /\ mu = "free"
    /\ items = EmptyMap
    /\ files = EmptyMap
    /\ db = NewDB
    /\ proc = [p \in Procs |-> Idle]
    /\ req = [p \in Procs |-> NoReq]
    /\ jan = [pc |-> IF backend = "file" /\ size > 0 THEN "wait" ELSE "off", n |-> 0,
             gone |-> {}, kept |-> {}]
    /\ tick = -1
    /\ nops = 0
    /\ goodTime = EmptyMap
    /\ goodBytes = EmptyMap
    /\ wlog = EmptyMap
    /\ rt = {}

SpecK == InitK /\ [][Next]_vars

\* ---------------------------------------------------------------- requests
\* One caller issues doGet and doQuery requests through a client whose cache
\* is the null cache of NewClient, a filesystem cache or an embedded store.
ClientURLs == {U3, U4}
\* the vars arguments of Query: two different sets of variables
Variables == {"v1", "v2"}

InitC ==
    /\ \E c \in { x \in Configs : x.backend = "noop" \/ x.ttl > 0 } :
          backend = c.backend /\ ttl = c.ttl /\ size = c.size
    /\ locs = {}
    /\ roles = [p \in Procs |-> IF p = "p1" THEN {"client", "do", "get"} ELSE {}]
    /\ now = 0
    /\ mu = "free"
    /\ items = EmptyMap
    /\ files = EmptyMap
    /\ db = NewDB
    /\ proc = [p \in Procs |-> Idle]
    /\ req = [p \in Procs |-> NoReq]
    /\ jan = [pc |-> IF backend = "file" /\ size > 0 THEN "wait" ELSE "off", n |-> 0,
             gone |-> {}, kept |-> {}]
    /\ tick = -1
    /\ nops = 0
    /\ goodTime = EmptyMap
    /\ goodBytes = EmptyMap
    /\ wlog = EmptyMap
    /\ rt = {}

\* the calls of a request into its cache
CacheGets(p) == req[p].stage = "cacheget"
CacheDoes(p) == req[p].stage = "decode"

NextC ==
    \/ \E p \in Procs, u \in ClientURLs : ClientStart(p, "get", u, <<>>, "none")
    \/ \E p \in Procs : ClientStart(p, "query", U3, Q1, "v1")
    \/ \E p \in Procs : CacheGets(p) /\ NoopGet(p, GetKey(req[p]))
    \/ \E p \in Procs : CacheGets(p) /\ FileGet(p, GetKey(req[p]))
    \/ \E p \in Procs : FileGetOpen(p)
    \/ \E p \in Procs : FileGetRead(p)
    \/ \E p \in Procs, e \in ConsumerResults : FileGetConsumerReturn(p, e)
    \/ \E p \in Procs, e \in ConsumerResults : CacheGets(p) /\ BoltGet(p, GetKey(req[p]), e)
    \/ \E p \in Procs : ClientGetDone(p)
    \/ \E p \in Procs :
          /\ req[p].stage = "execute"
          /\ \E r \in Served(DoLoc(req[p])), out \in ClientOutcomes("query") : ClientExecute(p, out, r)
    \/ \E p \in Procs : CacheDoes(p) /\ UnwrappedDo(p, DoLoc(req[p]), req[p].resp)
    \/ \E p \in Procs, n \in 0..MaxLen, e \in ConsumerResults : UnwrappedReturn(p, n, e)
    \/ \E p \in Procs, out \in {Nil, ErrMkdir, ErrCreate} :
          CacheDoes(p) /\ FileDoCreate(p, DoLoc(req[p]), req[p].resp, out)
    \/ \E p \in Procs : FileDoRead(p)
    \/ \E p \in Procs, e \in ConsumerResults : FileDoConsumerReturn(p, e)
    \/ \E p \in Procs : CacheDoes(p) /\ BoltDo(p, DoLoc(req[p]), req[p].resp)
    \/ \E p \in Procs, n \in 0..MaxLen, e \in ConsumerResults, ok \in BOOLEAN :
          BoltDoUpdate(p, n, e, ok)
    \/ \E p \in Procs : ClientDoDone(p)
    \/ \E p \in Procs : ClientReturn(p)
    \/ Tick
    \/ JanWake
    \/ JanSweep

SpecC == InitC /\ [][NextC]_vars

\* ---------------------------------------------------------------- queries
\* One caller issues Query requests with one URL, one query text and either
\* set of variables through a client with a filesystem cache or an embedded
\* store whose time-to-live is positive.
InitQ ==
    /\ \E c \in { x \in Configs : x.backend \in {"file", "bolt"} /\ x.ttl > 0 } :
          backend = c.backend /\ ttl = c.ttl /\ size = c.size
    /\ locs = {}
    /\ roles = [p \in Procs |-> IF p = "p1" THEN {"client", "do", "get"} ELSE {}]
    /\ now = 0
    /\ mu = "free"
    /\ items = EmptyMap
    /\ files = EmptyMap
    /\ db = NewDB
    /\ proc = [p \in Procs |-> Idle]
    /\ req = [p \in Procs |-> NoReq]
    /\ jan = [pc |-> IF backend = "file" /\ size > 0 THEN "wait" ELSE "off", n |-> 0,
             gone |-> {}, kept |-> {}]
    /\ tick = -1
    /\ nops = 0
    /\ goodTime = EmptyMap
    /\ goodBytes = EmptyMap
    /\ wlog = EmptyMap
    /\ rt = {}

NextQ ==
    \/ \E p \in Procs, v \in Variables : ClientStart(p, "query", U3, Q1, v)
    \/ \E p \in Procs : CacheGets(p) /\ FileGet(p, GetKey(req[p]))
    \/ \E p \in Procs : FileGetOpen(p)
    \/ \E p \in Procs : FileGetRead(p)
    \/ \E p \in Procs, e \in ConsumerResults : FileGetConsumerReturn(p, e)
    \/ \E p \in Procs, e \in ConsumerResults : CacheGets(p) /\ BoltGet(p, GetKey(req[p]), e)
    \/ \E p \in Procs : ClientGetDone(p)
    \/ \E p \in Procs :
          /\ req[p].stage = "execute"
          /\ \E r \in Served(DoLoc(req[p])), out \in ClientOutcomes("query") : ClientExecute(p, out, r)
    \/ \E p \in Procs, out \in {Nil, ErrMkdir, ErrCreate} :
          CacheDoes(p) /\ FileDoCreate(p, DoLoc(req[p]), req[p].resp, out)
    \/ \E p \in Procs : FileDoRead(p)
    \/ \E p \in Procs, e \in ConsumerResults : FileDoConsumerReturn(p, e)
    \/ \E p \in Procs : CacheDoes(p) /\ BoltDo(p, DoLoc(req[p]), req[p].resp)
    \/ \E p \in Procs, n \in 0..MaxLen, e \in ConsumerResults, ok \in BOOLEAN :
          BoltDoUpdate(p, n, e, ok)
    \/ \E p \in Procs : ClientDoDone(p)
    \/ \E p \in Procs : ClientReturn(p)
    \/ Tick
    \/ JanWake
    \/ JanSweep

SpecQ == InitQ /\ [][NextQ]_vars

\* ---------------------------------------------------------------- follow
\* Client.doFollow, lines 917-946: a list of URLs is worked off from its
\* head; the links of every response that was decoded are appended unless
\* their URL was seen or their relation is not followed.
MaxLinks == 2    \* elements of one Link header

\* RelType, part_003 281-287: 1 << iota
RelPrev == 1
RelNext == 2
RelBoth == 4
RelTypes == {0, RelPrev, RelNext, RelBoth}

\* RelType.follow, part_003 289-300
follow(r, str) ==
    CASE r = RelPrev -> str = "prev"
      [] r = RelNext -> str = "next"
      [] r = RelBoth -> str = "prev" \/ str = "next"
      [] OTHER       -> FALSE

FollowURLs == {U1, U2, U3}
Rels == {"prev", "next", "up"}

\* the comma-separated elements of a Link header after strings.TrimSpace:
\* a link <URL>; rel="Rel", an element that parseLink rejects with
\* ErrSyntax, or the empty string. strings.Split gives one empty element
\* for the empty string, which is what Header.Get returns when the
\* response has no Link header.
Elements ==
    [kind : {"link"}, URL : FollowURLs, Rel : Rels]
       \cup {[kind |-> "syntax", URL |-> <<>>, Rel |-> ""], [kind |-> "empty", URL |-> <<>>, Rel |-> ""]}

Headers == UNION { [1..n -> Elements] : n \in 1..MaxLinks }

\* ParseLink, part_002 95-105, and parseLink, 126-155: the elements are
\* parsed in order. parseLink indexes i.URL[0] (line 129) before any test, which
\* panics on the empty string (splitParams returns it as it is, 166-172);
\* on an error of parseLink the result is nil and the error.
RECURSIVE ParseLink(_, _)
ParseLink(hdr, acc) ==
    IF hdr = <<>> THEN [panic |-> FALSE, err |-> FALSE, links |-> acc]
    ELSE CASE Head(hdr).kind = "empty"  -> [panic |-> TRUE, err |-> FALSE, links |-> <<>>]
           [] Head(hdr).kind = "syntax" -> [panic |-> FALSE, err |-> TRUE, links |-> <<>>]
           [] OTHER -> ParseLink(Tail(hdr), Append(acc, Head(hdr)))

\* lines 936-942: the loop over the links, seen[k.URL] and append
RECURSIVE enqueue(_, _, _, _)
enqueue(links, list, seen, rel) ==
    IF links = <<>> THEN [list |-> list, seen |-> seen]
    ELSE LET k == Head(links) IN
         IF k.URL \in seen \/ ~ follow(rel, k.Rel)
         THEN enqueue(Tail(links), list, seen, rel)
         ELSE enqueue(Tail(links), Append(list, k.URL), seen \cup {k.URL}, rel)

\* line 943: list = list[1:]
rest(list) == Tail(list)

\* the entry of doFollow(u, rel, do), lines 917-926: list holds u, seen is
\* empty; do is a function or nil
FollowStart(p, u, rel, do) ==
    /\ Quiet
    /\ "client" \in roles[p]
    /\ req[p].stage = "none" /\ proc[p].pc = "idle"
    /\ nops < MaxDo
    /\ nops' = nops + 1
    /\ req' = [req EXCEPT ![p] =
                 [NoReq EXCEPT !.stage = "follow", !.kind = "follow", !.url = u, !.rel = rel,
                               !.do = do,
                               !.list = <<u>>, !.order = <<u>>]]
    /\ UNCHANGED <<wlog, locs, roles, backend, ttl, size, now, mu, items, files, db, proc, jan,
                   tick, goodTime, goodBytes, rt>>

\* what c.execute and decodeResponse give in one round; "consumer": do was
\* called and returned an error
FollowOutcomes == {"error", "status", "hook", "nocontent", "gzip", "consumer", "ok"}

\* one round of the loop, lines 927-944: c.execute for list[0], then
\* decodeResponse with the caller's do, then ParseLink of the Link header
\* hdr and the loop over its links
FollowFetch(p, out, hdr) ==
    /\ req[p].stage = "follow"
    /\ out = "consumer" => callsDo("ok", req[p].do)
    /\ LET r     == req[p]
           pl    == ParseLink(hdr, <<>>)
           q     == enqueue(pl.links, r.list, r.seen, r.rel)
           more  == out \in {"nocontent", "gzip", "ok"} /\ decodeError(out, r.do) = Nil
           fetch == [r EXCEPT !.net = @ + 1, !.out = out, !.fetched = Append(@, r.list[1]),
                              !.live = IF out = "consumer" \/ callsDo(out, r.do)
                                       THEN @ + 1 ELSE @]
       IN  req' = [req EXCEPT ![p] =
             IF ~ more
             THEN [fetch EXCEPT !.stage = "done",
                                !.res = CASE out = "error"    -> ErrNet
                                          [] out = "consumer" -> ErrConsumer
                                          [] OTHER -> decodeError(out, r.do)]
             ELSE IF pl.panic
             THEN [fetch EXCEPT !.stage = "panic"]
             ELSE [fetch EXCEPT !.list = rest(q.list), !.seen = q.seen,
                                !.order = @ \o SubSeq(q.list, Len(r.list) + 1, Len(q.list)),
                                !.stage = IF rest(q.list) = <<>> THEN "done" ELSE "follow"]]
    /\ UNCHANGED <<wlog, locs, roles, backend, ttl, size, now, mu, items, files, db, proc, jan,
                   tick, nops, goodTime, goodBytes, rt>>

InitL ==
    /\ \E c \in { x \in Configs : x.backend \in {"file", "bolt"} /\ x.ttl > 0 } :
          backend = c.backend /\ ttl = c.ttl /\ size = c.size
    /\ locs = {}
    /\ roles = [p \in Procs |-> IF p = "p1" THEN {"client"} ELSE {}]
    /\ now = 0
    /\ mu = "free"
    /\ items = EmptyMap
    /\ files = EmptyMap
    /\ db = NewDB
    /\ proc = [p \in Procs |-> Idle]
    /\ req = [p \in Procs |-> NoReq]
    /\ jan = [pc |-> IF backend = "file" /\ size > 0 THEN "wait" ELSE "off", n |-> 0,
             gone |-> {}, kept |-> {}]
    /\ tick = -1
    /\ nops = 0
    /\ goodTime = EmptyMap
    /\ goodBytes = EmptyMap
    /\ wlog = EmptyMap
    /\ rt = {}

NextL ==
    \/ \E p \in Procs, u \in FollowURLs, rel \in RelTypes, do \in {"func", "nil"} :
          FollowStart(p, u, rel, do)
    \/ \E p \in Procs, out \in FollowOutcomes, hdr \in Headers : FollowFetch(p, out, hdr)
    \/ \E p \in Procs : ClientReturn(p)

SpecL == InitL /\ [][NextL]_vars

\* ---------------------------------------------------------------- properties
\* a call of Get, or of a consumer returned by Do, has just returned to p
GetRet(p) == proc[p].pc = "ret" /\ proc[p].kind = "get"
DoRet(p)  == proc[p].pc = "ret" /\ proc[p].kind = "do"

IsPrefix(s, t) == Len(s) <= Len(t) /\ SubSeq(t, 1, Len(s)) = s

\* the consumer of the Get that has returned to p was given a reader over
\* bytes: what it has read is the start of bytes, and the whole of bytes when
\* it has read to the end
GivenStream(p, bytes) ==
    /\ IsPrefix(proc[p].seenBytes, bytes)
    /\ proc[p].full => proc[p].seenBytes = bytes

\* p's consumer wrapped by boltcache.Do / filecache.Do returns in this step
BoltDoReturns(p) == proc[p].pc = "bdo_consume" /\ proc'[p].pc = "ret"
FileDoReturns(p) == proc[p].pc = "do_consume" /\ proc'[p].pc = "ret"

\* C1: embedded-store backend, TTL > 0: a wrapped consumer whose consumer
\* returned an error changes none of the three buckets.
C1_FailedDoWritesNothing ==
    [][\A p \in Procs : (BoltDoReturns(p) /\ proc'[p].errd # Nil) => db' = db]_vars

\* C2: filesystem backend, TTL > 0: a wrapped consumer whose consumer returned
\* an error leaves the index as it was, and a Get of a key whose hash no
\* successful Do has registered returns missing without running its consumer.
C2_FailedDoKeepsIndex ==
    [][\A p \in Procs :
          /\ (FileDoReturns(p) /\ proc'[p].errd # Nil) => items' = items
          /\ (GetRet(p)' /\ backend = "file" /\ ttl > 0
                /\ FileKeyOf[proc'[p].url] \notin DOMAIN goodTime)
             => (proc'[p].res = errMissing /\ proc'[p].calls = 0)]_vars

\* C2's case: a failed Do left its partial file behind, no Do of the key has
\* succeeded, and a Get of the key has returned missing
C2_Witness ==
    \E p \in Procs, l \in locs :
       /\ backend = "file" /\ ttl > 0
       /\ GetRet(p) /\ proc[p].url = l.url /\ proc[p].res = errMissing
       /\ FileKeyOf[l.url] \notin DOMAIN goodTime
       /\ FilePathOf[l] \in DOMAIN files /\ files[FilePathOf[l]] # <<>>

\* C3: filesystem backend: a Get hit that reads the payload file while no write
\* is in progress gives its consumer a reader over exactly the bytes read by
\* the consumer of the most recent successful Do of the key.
C3_HitReadsLastSuccessfulBytes ==
    \A p \in Procs :
       (GetRet(p) /\ backend = "file" /\ proc[p].calls = 1 /\ mu = "free" /\ ~ proc[p].cut)
       => /\ FileKeyOf[proc[p].url] \in DOMAIN goodBytes
          /\ GivenStream(p, goodBytes[FileKeyOf[proc[p].url]])

\* C4: TTL > 0: the Get of k that directly follows a successful Do of k, less
\* than TTL after the timestamp that Do recorded, runs its consumer once, with
\* the content type the wrapped consumer was called with and a reader over
\* exactly the bytes its consumer read.
C4_RoundTrip ==
    \A p \in Procs : \A r \in rt :
       (GetRet(p) /\ r.by = p /\ proc[p].t0 - goodTime[r.key] < ttl)
       => /\ proc[p].calls = 1
          /\ proc[p].seenCt = r.ct
          /\ GivenStream(p, r.bytes)

\* C4's case: such a Get has returned after reading to its end a payload of
\* more than one byte
C4_Witness ==
    \E p \in Procs : \E r \in rt :
       /\ GetRet(p) /\ r.by = p /\ proc[p].t0 - goodTime[r.key] < ttl
       /\ proc[p].calls = 1 /\ Len(r.bytes) > 1 /\ proc[p].full /\ proc[p].seenBytes = r.bytes

\* C5: a Get never hands its consumer the file of a write that is still in
\* progress: no Get opens and reads a payload file between the os.Create and
\* the return of a wrapped consumer that is writing it.
C5_NoReadOfWriteInProgress ==
    [][\A p, q \in Procs :
          /\ (proc[p].pc = "get_open" /\ proc'[p].calls = 1)
             => ~ (proc[q].pc = "do_consume" /\ proc[q].file = proc[p].item.file)
          /\ (proc[p].pc = "get_read" /\ proc'[p].off > proc[p].off /\ ~ proc[p].unlinked)
             => ~ (proc[q].pc = "do_consume" /\ proc[q].file = proc[p].file)]_vars

\* the time the entry of u was written: the timestamp of the index entry that
\* the last successful Do registered (filesystem), the timestamp kept in the
\* time bucket (embedded store); -1 when there is none
EntryTime(u) ==
    IF backend = "file"
    THEN IF FileKeyOf[u] \in DOMAIN goodTime THEN goodTime[FileKeyOf[u]] ELSE -1
    ELSE LET w == UnmarshalBinary(Lookup(db.time, BoltKeyOf[u]))
         IN  IF w.err = Nil THEN w.when ELSE -1

\* a Get of a key has returned that started TTL or more after the key's entry
\* was last written
LateGet(p) ==
    /\ GetRet(p) /\ backend \in {"file", "bolt"} /\ ttl > 0
    /\ EntryTime(proc[p].url) >= 0
    /\ proc[p].t0 >= EntryTime(proc[p].url) + ttl

\* C6: a Get of a key for which no Do has succeeded returns missing and does
\* not run its consumer (stated for TTL > 0).
C6_MissingBeforeSuccessfulDo ==
    \A p \in Procs :
       (GetRet(p) /\ ttl > 0 /\ CacheKey(proc[p].url) \notin DOMAIN goodTime)
       => (proc[p].res = errMissing /\ proc[p].calls = 0)

\* C7 as stated: every Get issued TTL or more after the entry was written, and
\* not rewritten, returns expired.
C7_LateGetReturnsExpired ==
    \A p \in Procs : LateGet(p) => proc[p].res = errExpired

\* C7, amended: such a Get never runs its consumer and returns expired or
\* missing: the embedded store always expired; the filesystem backend expired
\* when the index still held the entry, which the Get removes, and missing when
\* the entry had been removed from the index before.
C7_LateGetNeverHits ==
    \A p \in Procs :
       LateGet(p)
       => /\ proc[p].calls = 0
          /\ backend = "bolt" => proc[p].res = errExpired
          /\ backend = "file" =>
                /\ FileKeyOf[proc[p].url] \notin DOMAIN items
                /\ \/ proc[p].res = errExpired /\ proc[p].item # NoItem
                   \/ proc[p].res = errMissing /\ proc[p].item = NoItem

\* C7's case: a late Get of the filesystem backend has returned missing
C7_Witness ==
    \E p \in Procs : LateGet(p) /\ backend = "file" /\ proc[p].res = errMissing

\* C8: a Get that starts TTL or more after the timestamp recorded by the last
\* successful Do of its key does not run its consumer.
C8_NoHitAfterTTL ==
    \A p \in Procs :
       (GetRet(p) /\ ttl > 0 /\ CacheKey(proc[p].url) \in DOMAIN goodTime
          /\ proc[p].t0 >= goodTime[CacheKey(proc[p].url)] + ttl)
       => proc[p].calls = 0

\* Get ran its consumer once, on the stored content type and a reader over
\* the stored bytes, and returned what the consumer returned. Stored are, in
\* the filesystem backend, the content type of the index entry the Get found
\* and the bytes read by the consumer of the successful Do that registered
\* it; in the embedded store, what the type and data buckets hold for the key
\* in the transaction of the Get
HitRet(p) ==
    /\ proc[p].calls = 1
    /\ proc[p].res = proc[p].errd
    /\ backend \in {"file", "bolt"}
    /\ backend = "file" =>
          /\ proc[p].seenCt = proc[p].item.dtype
          /\ GivenStream(p, proc[p].good)
    /\ backend = "bolt" =>
          /\ stringToBytes(proc[p].seenCt) = Lookup(db.type, BoltKeyOf[proc[p].url])
          /\ proc[p].seenBytes = Lookup(db.data, BoltKeyOf[proc[p].url])

\* Get returned missing or expired without running its consumer
MissRet(p) == proc[p].calls = 0 /\ proc[p].res \in {errMissing, errExpired}

\* C9: every Get is a hit that runs the consumer exactly once on the stored
\* content type and a reader over the stored bytes and returns the consumer's
\* result, or a miss or expiry that does not run the consumer. Violated in
\* the filesystem backend: the payload file is written in place and read
\* outside the mutex, so a hit reads the partial bytes of a failed Do or of a
\* Do in progress, and a Get whose file was removed returns the error of
\* os.Open.
C9_HitOrMiss == \A p \in Procs : GetRet(p) => (HitRet(p) \/ MissRet(p))

\* C10: when the consumer returned an error, the consumer returned by Do
\* returns that same error, also when the transaction fails.
C10_ConsumerErrorUnchanged ==
    \A p \in Procs :
       (DoRet(p) /\ proc[p].calls = 1 /\ proc[p].errd # Nil) => proc[p].res = proc[p].errd

\* C10's case: the consumer failed, the transaction failed too (nothing is
\* stored for the key), and the wrapped consumer has returned
C10_Witness ==
    \E p \in Procs :
       /\ DoRet(p) /\ backend = "bolt" /\ ttl > 0
       /\ proc[p].errd = ErrConsumer /\ proc[p].res = ErrConsumer
       /\ BoltKeyOf[proc[p].url] \notin DOMAIN db.time

\* C11: a wrapped consumer whose read-write transaction failed returns the
\* error of the transaction. Violated: boltcache.do runs the transaction
\* also after the consumer failed and then returns the consumer's error, so
\* that the error of the store is dropped.
C11_StorageErrorReturned ==
    \A p \in Procs : (DoRet(p) /\ proc[p].errb # Nil) => proc[p].res = proc[p].errb

\* nothing is stored: no index entry, no payload file, nothing in the buckets
NothingStored ==
    /\ items = EmptyMap /\ files = EmptyMap
    /\ db = NewDB

\* C12: a filesystem or embedded cache built with TTL <= 0 never stores
\* anything and never takes the mutex; its Get returns expired or missing
\* without running the consumer; the consumer its Do hands back is the
\* original one, which runs once and whose result is what the caller gets.
C12_DisabledCacheNeverChanges ==
    (backend \in {"file", "bolt"} /\ ttl <= 0)
    => /\ NothingStored
       /\ mu = "free"
       /\ \A p \in Procs :
             /\ proc[p].pc \in {"idle", "ret", "plain_consume"}
             /\ GetRet(p) => (proc[p].calls = 0 /\ proc[p].res \in {errExpired, errMissing})
             /\ DoRet(p) => (proc[p].calls = 1 /\ proc[p].res = proc[p].errd)

\* C12's case: TTL <= 0, consumers handed back by Do have been called with
\* live responses, and a Get has returned
C12_Witness ==
    \E p \in Procs :
       /\ backend \in {"file", "bolt"} /\ ttl <= 0
       /\ nops = MaxDo /\ GetRet(p)

\* C13: with the null backend, which is the cache of a new Client, every Get
\* returns missing without running the consumer, the consumer handed back by
\* Do is the original one (it runs once and its result is returned), and
\* nothing is ever stored.
C13_NullBackend ==
    backend = NewClientCache
    => /\ backend = "noop"
       /\ NothingStored
       /\ mu = "free"
       /\ \A p \in Procs :
             /\ proc[p].pc \in {"idle", "ret", "plain_consume"}
             /\ GetRet(p) => (proc[p].calls = 0 /\ proc[p].res = errMissing)
             /\ DoRet(p) => (proc[p].calls = 1 /\ proc[p].res = proc[p].errd)

\* C13's case: a Get of the null backend has returned after consumers handed
\* back by Do were called with live responses
C13_Witness ==
    \E p \in Procs : backend = "noop" /\ nops = MaxDo /\ GetRet(p)

\* C14: a key has one entry and the last writer wins: the Get that directly
\* follows the return of a successful Do of the key, whether or not other
\* writes of the key came before it or overlapped it, is decided by the
\* timestamp of that Do: within TTL of it the consumer gets the content type
\* and the bytes of that Do, otherwise the Get returns expired.
C14_LastWriterWins ==
    \A p \in Procs : \A r \in rt :
       (GetRet(p) /\ r.by = p)
       => IF proc[p].t0 - goodTime[r.key] < ttl
          THEN /\ proc[p].calls = 1
               /\ proc[p].seenCt = r.ct
               /\ GivenStream(p, r.bytes)
          ELSE proc[p].calls = 0 /\ proc[p].res = errExpired

\* C14's case: the Do was the second successful write of the key at least,
\* and the Get that follows it has delivered its payload
C14_Witness ==
    \E p \in Procs : \E r \in rt :
       /\ GetRet(p) /\ r.by = p /\ r.prev >= 0
       /\ proc[p].calls = 1 /\ r.bytes # <<>> /\ proc[p].full /\ proc[p].seenBytes = r.bytes

\* the three buckets hold exactly the last committed transaction of each key
BucketsAgree ==
    /\ DOMAIN db.time = DOMAIN wlog
    /\ DOMAIN db.data = DOMAIN wlog
    /\ DOMAIN db.type = DOMAIN wlog
    /\ \A k \in DOMAIN wlog :
          /\ db.time[k] = MarshalBinary(wlog[k].when)
          /\ db.data[k] = wlog[k].bytes
          /\ db.type[k] = stringToBytes(wlog[k].ct)

\* C15: embedded store: in every state a key has a value in all three buckets
\* or in none, all three from one transaction; the timestamp a Get checks and
\* the content type and bytes it delivers are those of one and the same
\* transaction, whatever writes overlap it (a Get that bolt refuses because
\* the store is closed checks and delivers nothing).
C15_OneWritePerGet ==
    backend = "bolt"
    => /\ BucketsAgree
       /\ \A p \in Procs :
             (GetRet(p) /\ proc[p].res # ErrNotOpen)
             => LET k == BoltKeyOf[proc[p].url] IN
                  IF k \notin DOMAIN wlog
                  THEN proc[p].calls = 0 /\ proc[p].res = errMissing
                  ELSE IF proc[p].t0 - wlog[k].when >= ttl
                  THEN proc[p].calls = 0 /\ proc[p].res = errExpired
                  ELSE /\ proc[p].calls = 1
                       /\ proc[p].seenCt = wlog[k].ct
                       /\ proc[p].seenBytes = wlog[k].bytes

\* C15's case: a Get has delivered an entry while a wrapped consumer writing
\* the same key is in progress
C15_Witness ==
    \E p, q \in Procs :
       /\ backend = "bolt" /\ GetRet(p) /\ proc[p].calls = 1
       /\ proc[p].seenBytes # <<>>
       /\ proc[q].pc = "bdo_consume" /\ proc[q].url = proc[p].url

\* C16: constructing the embedded cache again over the same file keeps the
\* entries that were written before.
C16_ReopenKeepsEntries ==
    [][\A p \in Procs :
          (proc[p].pc = "idle" /\ proc'[p].pc = "ret" /\ proc'[p].kind = "open"
             /\ proc'[p].res = Nil)
          => (db'.time = db.time /\ db'.data = db.data /\ db'.type = db.type)]_vars

\* a wrapped write of p is in progress: the consumer is streaming the body
Streaming(p) == proc[p].pc \in {"do_consume", "bdo_consume"}

\* q can take the first step of Get(u) now, without waiting for anyone
CanGet(q, u) ==
    ENABLED (FileGet(q, u) \/ \E e \in ConsumerResults : BoltGet(q, u, e))

\* C20: while a wrapped write for one key is in progress, a caller that is
\* ready to call Get for a URL with a different key can do so at once.
\* Violated: the consumer returned by filecache.Do holds the mutex of the
\* cache from before os.Create until the caller's consumer has returned, and
\* filecache.get needs the same mutex whatever the key.
C20_UnrelatedKeysDoNotBlock ==
    \A p \in Procs : \A q \in Procs \ {p}, l \in locs :
        (/\ Streaming(p)
         /\ CacheKey(l.url) # CacheKey(proc[p].url)
         /\ MayCall(q, "get")) => CanGet(q, l.url)

\* C22: the timestamp recorded with an entry is the time at which its
\* successful write returned, and the Get that directly follows the write less
\* than the time-to-live after that time is not told that the entry is
\* expired. Violated: boltcache.do reads the clock before the consumer runs
\* and stores that time.
C22_TimestampIsCompletionTime ==
    \A r \in rt :
        /\ goodTime[r.key] = r.done
        /\ \A p \in Procs :
              (GetRet(p) /\ r.by = p /\ proc[p].t0 - r.done < ttl) => proc[p].res # errExpired

\* p is past the index step of a filesystem operation: the payload file of its
\* wrapped write is created and the consumer is reading the live body through
\* it, or its Get is about to open the payload file or is reading it
InFileIO(p) == proc[p].pc \in {"do_consume", "get_open", "get_read"}

\* C23: filesystem backend: a Get or a wrapped write that is creating, writing
\* or reading a payload file, or running the consumer, does not hold the
\* mutex of the index. Violated: the consumer returned by filecache.Do locks
\* the mutex before os.Create and unlocks it when it returns.
C23_NoMutexAcrossFileIO ==
    \A p \in Procs : (backend = "file" /\ InFileIO(p)) => mu # p

\* the janitor receives a tick; the janitor finishes a sweep
WakeStep  == jan.pc = "wait" /\ tick # -1 /\ tick' = -1
SweepStep == jan.pc = "sweep" /\ jan'.pc = "wait"

\* age at tick n of the item of key k
AgeAt(n, k) == n - items[k].when

\* C24: capacity > 0: a wake-up that finds fewer index entries than the
\* capacity changes neither the index nor the disk and does not sweep; the
\* sweep that follows any other wake-up removes from the index and from the
\* disk every entry whose age at the tick is at least the wake interval, and
\* leaves every younger entry in the index, unchanged, with its file.
C24_SweepRemovesOldKeepsYoung ==
    [][ /\ WakeStep =>
              /\ items' = items /\ files' = files
              /\ jan'.pc = IF Cardinality(DOMAIN items) < size THEN "wait" ELSE "sweep"
        /\ SweepStep =>
              \A k \in DOMAIN items :
                 IF AgeAt(jan.n, k) >= cleanWait
                 THEN k \notin DOMAIN items' /\ items[k].file \notin DOMAIN files'
                 ELSE /\ k \in DOMAIN items' /\ items'[k] = items[k]
                      /\ items[k].file \in DOMAIN files
                            => (items[k].file \in DOMAIN files'
                                /\ files'[items[k].file] = files[items[k].file])
      ]_vars

\* C24's case: the last sweep removed an entry with its file and left a
\* younger one, which is in the index with its file
C24_Witness ==
    /\ jan.pc = "wait" /\ jan.gone # {} /\ jan.kept # {}
    /\ \A k \in jan.kept : k \in DOMAIN items /\ items[k].file \in DOMAIN files

\* C25: the janitor reads or changes the index only with the mutex, so it
\* reads the size of the index only when no caller holds the mutex. Violated:
\* filecache.clean compares len(c.items) with c.size before it locks.
C25_JanitorReadsIndexUnderMutex ==
    [][ (WakeStep \/ SweepStep) => mu = "free" ]_vars

\* p takes the index step of a Get
GetStep(p) == proc[p].pc = "idle" /\ proc'[p].pc # "idle" /\ proc'[p].kind = "get"

\* C26: filesystem backend, TTL > 0: a Get that finds in the index an entry
\* of its key whose age is at least TTL returns expired and removes that
\* entry, and nothing else, from the index; it removes or changes no file.
\* Any other Get leaves the index as it is.
C26_LazyExpiryDropsOneIndexEntry ==
    [][ \A p \in Procs :
          (GetStep(p) /\ backend = "file" /\ ttl > 0) =>
             LET k == FileKeyOf[proc'[p].url] IN
               /\ files' = files
               /\ IF k \in DOMAIN items /\ now - items[k].when >= ttl
                  THEN /\ proc'[p].pc = "ret" /\ proc'[p].res = errExpired
                       /\ proc'[p].calls = 0
                       /\ DOMAIN items' = DOMAIN items \ {k}
                       /\ \A x \in DOMAIN items' : items'[x] = items[x]
                  ELSE items' = items
      ]_vars

\* C26's case: a Get has returned expired after dropping the entry of its key;
\* the payload file is still on disk and the entry of another key is still in
\* the index
C26_Witness ==
    \E p \in Procs :
       /\ GetRet(p) /\ proc[p].res = errExpired /\ backend = "file" /\ ttl > 0
       /\ proc[p].item # NoItem /\ proc[p].item.file \in DOMAIN files
       /\ FileKeyOf[proc[p].url] \notin DOMAIN items
       /\ DOMAIN items # {}

\* the times whose encoding is the value of key k in the time bucket: none when
\* the key is absent or its value is not the encoding of a time
StoredTimes(k) ==
    { t \in 0..MaxTime : k \in DOMAIN db.time /\ db.time[k] = MarshalBinary(t) }

\* C27: embedded store, TTL > 0: what a Get returns is decided by the time
\* bucket alone: missing when the key has no timestamp there or one that is
\* not the encoding of a time, expired when the Get was called TTL or more
\* after the timestamp, in both cases without running the consumer; otherwise
\* the consumer runs once on the values of the key in the data and type
\* buckets and its result is returned.
C27_BoltGetClassifiesByTimestamp ==
    \A p \in Procs :
        (GetRet(p) /\ backend = "bolt" /\ ttl > 0) =>
           LET k  == BoltKeyOf[proc[p].url]
               ts == StoredTimes(k)
           IN  IF ts = {}
               THEN proc[p].res = errMissing /\ proc[p].calls = 0
               ELSE IF \E t \in ts : proc[p].t0 - t >= ttl
               THEN proc[p].res = errExpired /\ proc[p].calls = 0
               ELSE /\ proc[p].calls = 1
                    /\ proc[p].res = proc[p].errd
                    /\ proc[p].seenBytes = Lookup(db.data, k)
                    /\ proc[p].seenCt = bytesToString(Lookup(db.type, k))

\* C27's case: a Get has returned expired without running its consumer while
\* the data and the type of the key are still in their buckets
C27_Witness ==
    \E p \in Procs :
       /\ GetRet(p) /\ backend = "bolt" /\ ttl > 0
       /\ StoredTimes(BoltKeyOf[proc[p].url]) # {}
       /\ BoltKeyOf[proc[p].url] \in DOMAIN db.data
       /\ proc[p].res = errExpired /\ proc[p].calls = 0

\* the item that a successful wrapped consumer of p has just registered
Registered(p) ==
    /\ DoRet(p) /\ proc[p].res = Nil
    /\ backend = "file" /\ ~ disabled(ttl)

\* p takes a step of the consumer returned by filecache.Do
FileDoStep(p) ==
    /\ backend = "file"
    /\ proc[p].pc \in {"idle", "do_consume"} /\ proc'[p] # proc[p]
    /\ proc'[p].kind = "do"

\* C28: filesystem backend: a step of a wrapped write of key k leaves every
\* other key's index entry in place and unchanged and adds no key but k,
\* whatever the size of the index and the capacity.
C28_DoChangesOnlyItsKey ==
    [][ \A p \in Procs :
          FileDoStep(p) =>
             LET k == FileKeyOf[proc'[p].url] IN
               /\ DOMAIN items' \subseteq DOMAIN items \cup {k}
               /\ \A x \in DOMAIN items \ {k} : x \in DOMAIN items' /\ items'[x] = items[x]
      ]_vars

\* C28's case: a wrapped write has just added an entry to an index that was
\* already at its capacity, and the index now holds more entries than that
C28_Witness ==
    \E p \in Procs :
       /\ Registered(p) /\ size > 0
       /\ Cardinality(DOMAIN items) > size

\* C29: filesystem backend: when the consumer returned by Do has returned,
\* with nil, with the error of the caller's consumer or with the error of the
\* creation of the directories or the file, the mutex is free and the caller
\* holds no open payload file; and the mutex is never held except by a
\* wrapped write that is still running.
C29_SinkReleasedOnEveryExit ==
    /\ \A p \in Procs :
          (DoRet(p) /\ backend = "file" /\ ~ disabled(ttl)) =>
             (mu = "free" /\ proc[p].file = NoPath)
    /\ mu # "free" => \E q \in Procs : mu = q /\ proc[q].pc = "do_consume"

\* C29's case: the caller's consumer failed after the file was created and
\* written to, and the wrapped consumer has returned its error
C29_Witness ==
    \E p \in Procs :
       /\ DoRet(p) /\ backend = "file" /\ ~ disabled(ttl)
       /\ proc[p].res = ErrConsumer /\ proc[p].calls = 1 /\ proc[p].seenBytes # <<>>
       /\ mu = "free"

\* C30: the interval handed to the janitor, which is also its age threshold,
\* is the time-to-live of the cache, and every entry that a sweep removes
\* from the index is, when it is removed, TTL old or more: a Get would have
\* answered expired for it.
C30_SweepRemovesOnlyExpired ==
    [][ SweepStep =>
          /\ cleanWait = ttl
          /\ \A k \in DOMAIN items \ DOMAIN items' :
                now - items[k].when >= ttl /\ isExpired(items[k], ttl)
      ]_vars

\* C30's case: the last sweep found the index at its capacity and removed an
\* entry, at a time when the entry written last had not expired
C30_Witness ==
    /\ jan.pc = "wait" /\ jan.gone # {} /\ size > 0 /\ ttl > 0
    /\ \E k \in jan.kept : k \in DOMAIN items /\ ~ isExpired(items[k], ttl)

\* what a caller's own steps change of its record: all but the marks that
\* a truncation or a removal of the file it reads leaves on it
Own(c) == [c EXCEPT !.cut = FALSE, !.unlinked = FALSE, !.inode = <<>>]

\* p takes a step of a Get that is not the return of expired
HitStep(p) ==
    /\ Own(proc'[p]) # Own(proc[p]) /\ proc'[p].pc # "idle" /\ proc'[p].kind = "get"
    /\ proc'[p].res # errExpired

\* C31: TTL > 0: no step of a Get that finds its entry and serves it changes
\* the index, a payload file or the store, so the timestamp of the entry stays
\* the one of its write however often it is read; and no step of a Get of the
\* embedded store, the return of expired included, writes to the store.
C31_HitChangesNothing ==
    [][ \A p \in Procs :
          /\ HitStep(p) => (items' = items /\ files' = files /\ db' = db)
          /\ (Own(proc'[p]) # Own(proc[p]) /\ proc'[p].kind = "get" /\ backend = "bolt") => db' = db
      ]_vars

\* C31's case: a Get has run its consumer on an entry, which is still in the
\* cache with the timestamp of its write
C31_Witness ==
    \E p \in Procs :
       /\ GetRet(p) /\ proc[p].calls = 1 /\ proc[p].res = Nil
       /\ CacheKey(proc[p].url) \in DOMAIN goodTime
       /\ IF backend = "file"
          THEN /\ FileKeyOf[proc[p].url] \in DOMAIN items
               /\ items[FileKeyOf[proc[p].url]].when = goodTime[FileKeyOf[proc[p].url]]
          ELSE StoredTimes(BoltKeyOf[proc[p].url]) = {goodTime[BoltKeyOf[proc[p].url]]}

\* ---------------------------------------------------------------- requests: properties
RequestDone(p) == req[p].stage = "done"

\* C17: in every finished doGet or doQuery the caller's consumer has run at
\* most once, never on the cached bytes and then again on the live response,
\* and it has run on the live response whenever that response was delivered
\* and the cache gave a sink for it. Violated: doQuery goes on to the live
\* request after any error of Cache.Get, the consumer's own error included.
C17_ConsumerRunsOnce ==
    \A p \in Procs :
        RequestDone(p) =>
            /\ req[p].cached + req[p].live <= 1
            /\ (req[p].out = "ok" /\ req[p].res \notin {ErrMkdir, ErrCreate}) => req[p].live = 1

\* C18: a finished doGet whose Cache.Get returned nil made no network call
\* and did not run the consumer on a live response; one whose Cache.Get
\* returned missing or expired, either of them, made the live request, and
\* when that request delivered a body, do had been replaced by the consumer of
\* Cache.Do and the caller's consumer ran on the body through it (unless the
\* filesystem cache could not create its file, whose error is then returned).
C18_HitOrLiveFetch ==
    \A p \in Procs :
        (RequestDone(p) /\ req[p].kind = "get") =>
            /\ req[p].getres = Nil =>
                  req[p].net = 0 /\ req[p].live = 0 /\ req[p].cached = 1 /\ req[p].res = Nil
            /\ req[p].getres \in {errMissing, errExpired} =>
                  /\ req[p].net = 1 /\ req[p].cached = 0
                  /\ req[p].out = "ok" =>
                        /\ req[p].wrapped
                        /\ req[p].live = 1 \/ req[p].res \in {ErrMkdir, ErrCreate}

\* C18 witness: a doGet found an expired entry, made the live request and ran
\* the consumer on its body
C18_Witness ==
    \E p \in Procs :
        /\ RequestDone(p) /\ req[p].kind = "get"
        /\ req[p].getres = errExpired /\ req[p].net = 1 /\ req[p].out = "ok" /\ req[p].live = 1

\* C19: the key of the string that doGet hands to Cache.Get is the key of the
\* URL that it hands to Cache.Do, and a doGet(u) that starts while the entry stored for u by an earlier
\* doGet(u) (under the String of the parsed URL, with a nil consumer error)
\* is within its time-to-live makes no network request. Violated: Cache.Get
\* is given u as written, and the two strings differ when u is not in the
\* form that String gives it.
C19_SecondGetServedFromCache ==
    \A p \in Procs :
        (req[p].kind = "get" /\ backend # "noop") =>
            /\ CacheKey(GetKey(req[p])) = CacheKey(DoLoc(req[p]).url)
            /\ (RequestDone(p) /\ req[p].had >= 0 /\ req[p].t0 - req[p].had < ttl)
                  => req[p].net = 0

\* ---------------------------------------------------------------- colliding keys: properties
\* C21: the key is a function of the string alone, and strings with one key
\* are one entry: the Get of u2 that directly follows a successful Do of
\* another string u1 with the same key, within the time-to-live, runs its
\* consumer once on the content type and a reader over the bytes of u1; and a successful Do
\* leaves under its key the one item of its own file and content type,
\* whatever string filled the key before.
C21_CollidingStringsShareEntry ==
    /\ \A l1 \in locs, l2 \in locs :
          l1.url = l2.url => (filekey(l1.url) = filekey(l2.url) /\ boltkey(l1.url) = boltkey(l2.url))
    /\ \A p \in Procs : \A r \in rt :
          (/\ GetRet(p) /\ r.by = p /\ r.url # proc[p].url
           /\ proc[p].t0 - goodTime[r.key] < ttl)
          => /\ CacheKey(proc[p].url) = r.key
             /\ proc[p].calls = 1
             /\ proc[p].seenCt = r.ct
             /\ GivenStream(p, r.bytes)
    /\ \A p \in Procs :
          Registered(p) =>
             /\ items[FileKeyOf[proc[p].url]].file
                   = FilePathOf[CHOOSE l \in Locs : l.url = proc[p].url]
             /\ items[FileKeyOf[proc[p].url]].dtype = proc[p].seenCt
             /\ \A l \in locs : FileKeyOf[l.url] \in DOMAIN items
                                  => items[FileKeyOf[l.url]] = items[FileKeyOf[proc[p].url]]

\* C21's case: a Get of "http://h/bac" has delivered the bytes that the Do of
\* "http://h/acb" stored, in an index whose entry had been written before
C21_Witness ==
    \E p \in Procs : \E r \in rt :
       /\ GetRet(p) /\ r.by = p /\ r.url # proc[p].url /\ r.prev >= 0
       /\ proc[p].t0 - goodTime[r.key] < ttl
       /\ proc[p].calls = 1 /\ r.bytes # <<>> /\ proc[p].full /\ proc[p].seenBytes = r.bytes

\* C32: a filesystem Get whose payload file was removed after its index step
\* returns the error of os.Open, which is neither missing nor expired, without
\* running the consumer; and a doGet whose Cache.Get returned that error
\* returns it to its caller without a network call and without running the
\* consumer on a live response.
C32_OpenErrorEndsDoGet ==
    \A p \in Procs :
        /\ (GetRet(p) /\ proc[p].res = ErrNotExist) =>
              /\ backend = "file"
              /\ proc[p].item.file \notin DOMAIN files
              /\ proc[p].calls = 0
        /\ (RequestDone(p) /\ req[p].kind = "get" /\ req[p].getres = ErrNotExist) =>
              /\ req[p].res = ErrNotExist
              /\ req[p].net = 0 /\ req[p].cached = 0 /\ req[p].live = 0

\* C32's case: the janitor swept the entry between the index step and the
\* open of a doGet's Cache.Get, and the doGet has ended with the open error
C32_Witness ==
    \E p \in Procs :
       /\ RequestDone(p) /\ req[p].kind = "get" /\ req[p].getres = ErrNotExist
       /\ req[p].res = ErrNotExist /\ req[p].net = 0
       /\ jan.gone # {}

\* ---------------------------------------------------------------- nested calls: properties
\* the consumer of p, running inside the consumer returned by filecache.Do,
\* has called Get on the same cache
Stuck(p) == backend = "file" /\ proc[p].pc = "do_nested"

\* C33: filesystem backend: from the moment the caller's consumer, run by
\* the consumer returned by Do, calls into the same cache, the mutex stays
\* with its caller, which never moves again; no caller that is idle gets a
\* Get or a wrapped write started, and no sweep completes: the index and the
\* disk stay as they are.
C33_NestedCallDeadlocks ==
    [][ \A p \in Procs :
          Stuck(p) =>
             /\ mu = p /\ mu' = p
             /\ proc'[p] = proc[p]
             /\ \A q \in Procs : proc[q].pc = "idle" => proc'[q].pc = "idle"
             /\ jan.pc = "sweep" => jan'.pc = "sweep"
             /\ items' = items /\ files' = files
      ]_vars

\* C33's case: the consumer has called into the cache while the janitor is
\* about to sweep and the other caller is about to call Get
C33_Witness ==
    \E p \in Procs :
       /\ Stuck(p) /\ mu = p
       /\ jan.pc = "sweep"
       /\ \E q \in Procs \ {p} : proc[q].pc = "idle" /\ "get" \in roles[q]
       /\ now = MaxTime

\* ---------------------------------------------------------------- queries: properties
\* the request of p is a Query that started while the response stored by a
\* Query with the same URL and query text and other variables was less than
\* TTL old
SharesEntry(p) ==
    /\ req[p].kind = "query"
    /\ req[p].stored \notin {"none", req[p].qvars}
    /\ req[p].had >= 0 /\ req[p].t0 - req[p].had < ttl

\* C34: the string handed to Cache.Get by a Query does not depend on its
\* variables, and a Query that follows, within the time-to-live, a Query with
\* the same URL and query text and other variables whose response was stored
\* ends without a network request, its consumer having run once on the cached
\* bytes. Violated: doQuery goes on to the live request when that consumer,
\* or the open of the payload file, fails.
C34_QueryVariablesShareEntry ==
    \A p \in Procs :
        (RequestDone(p) /\ SharesEntry(p)) =>
           /\ req[p].getres \notin {errMissing, errExpired}
           /\ req[p].net = 0 /\ req[p].cached = 1

\* ---------------------------------------------------------------- early returns: properties
\* the outcomes with which decodeResponse returns before line 1030 although
\* a response arrived: status >= 400, a failing response hook, status 204,
\* a body that is not gzip under content-encoding gzip
EarlyReturns == {"status", "hook", "nocontent", "gzip"}

\* the step in which p gets such a response: c.execute, Cache.Do and the
\* tests of decodeResponse
EarlyReturnStep(p) == req[p].stage = "execute" /\ req'[p].out \in EarlyReturns

\* C35: a response whose status is >= 400, whose hook fails or whose status
\* is 204 (and one whose body is not gzip although its header says so) ends
\* the request without the consumer given by Cache.Do being called: the request is finished in that step, no cache operation of the
\* caller is started, and the index, the files and the store are what they
\* were, so that a Get for the key finds what it found before.
C35_EarlyReturnStoresNothing ==
    [][\A p \in Procs :
          EarlyReturnStep(p) =>
             /\ RequestDone(p)' /\ req'[p].live = 0
             /\ proc'[p] = Idle
             /\ UNCHANGED <<items, files, db, goodTime, goodBytes>>]_vars

\* C35 witness: over a cache that stores, a request whose Get missed ended
\* with a 204 response, the consumer of Cache.Do in hand and never called,
\* and the key is still missing
C35_Witness ==
    \E p \in Procs :
        /\ backend # "noop" /\ ttl > 0
        /\ RequestDone(p) /\ req[p].out = "nocontent" /\ req[p].wrapped
        /\ req[p].getres = errMissing /\ req[p].live = 0
        /\ CacheKey(DoLoc(req[p]).url) \notin DOMAIN goodTime

\* ---------------------------------------------------------------- index and files: properties
\* C36: filesystem cache: the file named by every entry of the index exists.
\* An entry is inserted after os.Create made its file, and the sweep removes
\* a file together with its entry.
C36_IndexedFilesExist ==
    backend = "file" => \A k \in DOMAIN items : items[k].file \in DOMAIN files

\* C36 witness: the last sweep deleted an entry and its file and kept another
\* entry, which is still in the index
C36_Witness ==
    /\ backend = "file"
    /\ jan.gone # {} /\ jan.gone \cap DOMAIN items = {}
    /\ jan.kept \cap DOMAIN items # {}
    /\ \A k \in DOMAIN items : items[k].file \in DOMAIN files

\* ---------------------------------------------------------------- follow: properties
\* how often u occurs in the sequence of the URLs that were requested
Count(seq, u) == Cardinality({ i \in DOMAIN seq : seq[i] = u })

\* the store is as it was constructed
CacheUntouched ==
    /\ items = EmptyMap /\ files = EmptyMap
    /\ db = NewDB

\* C37: a Follow works off its list in the order of insertion until the list
\* is empty or a request or the consumer fails: it is in its loop or it has
\* returned; the URLs were requested in the order in which they entered the
\* list; no URL was requested more than once, the start URL more than twice;
\* an error ends it at once; the cache is neither read nor written.
\* Violated: ParseLink panics on a response without Link header, so that a
\* Follow ends in a panic instead of returning.
C37_FollowWorksOffItsList ==
    \A p \in Procs :
        req[p].kind = "follow" =>
           LET r == req[p] IN
           /\ r.stage \in {"follow", "done"}
           /\ r.fetched = SubSeq(r.order, 1, Len(r.fetched))
           /\ r.stage = "follow" => r.order = r.fetched \o r.list
           /\ \A u \in FollowURLs : Count(r.fetched, u) <= (IF u = r.url THEN 2 ELSE 1)
           /\ r.res # Nil => r.stage = "done"
           /\ (r.stage = "done" /\ r.res = Nil) => r.list = <<>>
           /\ r.cached = 0 /\ ~ r.wrapped /\ proc[p] = Idle /\ CacheUntouched

====
